---- MODULE Spec2Model ----
(***************************************************************************)
(* Model of the endee web UI: the ApiClient adapter over the endee client, *)
(* the AuthProvider token lifecycle, and the page controllers (search,     *)
(* create index, vector insert, backups, tutorials) with the raw fetch     *)
(* call sites they contain.                                                *)
(*                                                                         *)
(* Conventions.  A JavaScript null / absent value is Null.  A text (a form *)
(* field, an error message) is a TLA+ string; where the code looks inside  *)
(* a text (toLowerCase/includes, trim, parseInt, JSON.parse) the text's    *)
(* characters are given by Chars and the code's algorithm runs on them.    *)
(* A handler that awaits a network call is two actions: the synchronous    *)
(* part up to the await, and the continuation that runs when the call      *)
(* settles with an outcome chosen by the environment.                      *)
(***************************************************************************)
EXTENDS Integers, Sequences, FiniteSets, TLC

Null == "<null>"

(***************************************************************************)
(* Bounds.                                                                 *)
(***************************************************************************)
\* the number of tutorial steps a session touches
MaxStepsTried == 1
\* rows of the insert form (addVector stops there)
MaxRows == 2
\* fetch calls of the backups page awaiting their response (the calls a
\* continuation issues are not held back)
MaxInflight == 2
\* the most loadIndexInfo calls of the search page awaited at once when the
\* route parameter changes
MaxLoads == 1

(***************************************************************************)
(* Texts and their characters.                                             *)
(***************************************************************************)
Chars(s) ==
  CASE s = ""                      -> << >>
    [] s = " "                     -> <<" ">>
    [] s = "401"                   -> <<"4","0","1">>
    [] s = "HTTP 401"              -> <<"H","T","T","P"," ","4","0","1">>
    [] s = "Invalid Token"         -> <<"I","n","v","a","l","i","d"," ","T","o","k","e","n">>
    [] s = "invalid  token"        -> <<"i","n","v","a","l","i","d"," "," ","t","o","k","e","n">>
    [] s = "Not found"             -> <<"N","o","t"," ","f","o","u","n","d">>
    [] s = "40 1"                  -> <<"4","0"," ","1">>
    [] s = "{\"a\":1}"                -> <<"{","\"","a","\"",":","1","}">>
    [] s = "Vector not found"             -> <<"V","e","c","t","o","r"," ","n","o","t"," ","f","o","u","n","d">>
    [] s = "Either id or filter must be provided"  -> <<"E","i","t","h","e","r"," ","i","d"," ","o","r"," ","f","i","l","t","e","r"," ","m","u","s","t"," ","b","e"," ","p","r","o","v","i","d","e","d">>
    [] s = "invalid token"                -> <<"i","n","v","a","l","i","d"," ","t","o","k","e","n">>
    [] s = "binary"                       -> <<"b","i","n","a","r","y">>
    [] s = "int8d"                        -> <<"i","n","t","8","d">>
    [] s = "int16d"                       -> <<"i","n","t","1","6","d">>
    [] s = "float16"                      -> <<"f","l","o","a","t","1","6">>
    [] s = "float32"                      -> <<"f","l","o","a","t","3","2">>
    [] s = "Float32"                      -> <<"F","l","o","a","t","3","2">>
    [] s = "double"                       -> <<"d","o","u","b","l","e">>
    [] s = "tutorial_index" ->
         <<"t","u","t","o","r","i","a","l","_","i","n","d","e","x">>
    [] s = "{\n  \"name\": \"my_backup\"\n}" ->
         <<"{","\n"," "," ","\"","n","a","m","e","\"",":"," ","\"","m","y","_","b","a","c","k","u","p","\"","\n","}">>
    [] s = "{\n  \"backup_name\": \"my_backup\",\n  \"target_index_name\": \"restored_index\"\n}" ->
         <<"{","\n"," "," ","\"","b","a","c","k","u","p","_","n","a","m","e","\"",":"," ","\"","m","y","_","b","a","c","k","u","p","\"",",","\n"," "," ","\"","t","a","r","g","e","t","_","i","n","d","e","x","_","n","a","m","e","\"",":"," ","\"","r","e","s","t","o","r","e","d","_","i","n","d","e","x","\"","\n","}">>
    [] s = "{\n  \"backup_name\": \"my_backup\"\n}" ->
         <<"{","\n"," "," ","\"","b","a","c","k","u","p","_","n","a","m","e","\"",":"," ","\"","m","y","_","b","a","c","k","u","p","\"","\n","}">>
    [] s = "{" ->
         <<"{">>
    [] s = "null" ->
         <<"n","u","l","l">>
    [] s = "{\"backup_name\":\"a b\"}" ->
         <<"{","\"","b","a","c","k","u","p","_","n","a","m","e","\"",":","\"","a"," ","b","\"","}">>
    [] s = "name" ->
         <<"n","a","m","e">>
    [] s = "backup_name" ->
         <<"b","a","c","k","u","p","_","n","a","m","e">>
    [] s = "target_index_name" ->
         <<"t","a","r","g","e","t","_","i","n","d","e","x","_","n","a","m","e">>
    [] s = "undefined" ->
         <<"u","n","d","e","f","i","n","e","d">>
    [] s = "backup.tar" ->
         <<"b","a","c","k","u","p",".","t","a","r">>
    [] s = "1, 2" ->
         <<"1",","," ","2">>
    [] s = "1,," ->
         <<"1",",",",">>
    [] s = "5" ->
         <<"5">>
    [] s = "0" ->
         <<"0">>
    [] s = "10" ->
         <<"1","0">>
    [] s = "{a" ->
         <<"{","a">>
    [] s = "1" ->
         <<"1">>
    [] s = "0.5, 0.5" ->
         <<"0",".","5",","," ","0",".","5">>
    [] s = "x" ->
         <<"x">>
    [] s = "idx" ->
         <<"i","d","x">>
    [] s = "4" ->
         <<"4">>
    [] s = "3.5" ->
         <<"3",".","5">>
    [] s = "8" ->
         <<"8">>
    [] s = "2.5" ->
         <<"2",".","5">>
    [] s = "16" ->
         <<"1","6">>
    [] s = "3" ->
         <<"3">>
    [] s = "16.5" ->
         <<"1","6",".","5">>
    [] s = "128" ->
         <<"1","2","8">>
    [] s = "63" ->
         <<"6","3">>
    [] s = "v1" ->
         <<"v","1">>
    [] s = "0.5" ->
         <<"0",".","5">>
    [] s = "Invalid vector data: Vector ID is required" ->
         <<"I","n","v","a","l","i","d"," ","v","e","c","t","o","r"," ","d","a","t","a",":"," ","V","e","c","t","o","r"," ","I","D"," ","i","s"," ","r","e","q","u","i","r","e","d">>
    [] s = "Invalid vector data: Vector must be a non-empty array of numbers" ->
         <<"I","n","v","a","l","i","d"," ","v","e","c","t","o","r"," ","d","a","t","a",":"," ","V","e","c","t","o","r"," ","m","u","s","t"," ","b","e"," ","a"," ","n","o","n","-","e","m","p","t","y"," ","a","r","r","a","y"," ","o","f"," ","n","u","m","b","e","r","s">>
    [] s = "Invalid vector data: Unexpected token in JSON" ->
         <<"I","n","v","a","l","i","d"," ","v","e","c","t","o","r"," ","d","a","t","a",":"," ","U","n","e","x","p","e","c","t","e","d"," ","t","o","k","e","n"," ","i","n"," ","J","S","O","N">>
    [] s = "Invalid vector data: Sparse indices and values must have the same length" ->
         <<"I","n","v","a","l","i","d"," ","v","e","c","t","o","r"," ","d","a","t","a",":"," ","S","p","a","r","s","e"," ","i","n","d","i","c","e","s"," ","a","n","d"," ","v","a","l","u","e","s"," ","m","u","s","t"," ","h","a","v","e"," ","t","h","e"," ","s","a","m","e"," ","l","e","n","g","t","h">>
    [] s = "Invalid vector data: Both sparse indices and sparse values must be provided together" ->
         <<"I","n","v","a","l","i","d"," ","v","e","c","t","o","r"," ","d","a","t","a",":"," ","B","o","t","h"," ","s","p","a","r","s","e"," ","i","n","d","i","c","e","s"," ","a","n","d"," ","s","p","a","r","s","e"," ","v","a","l","u","e","s"," ","m","u","s","t"," ","b","e"," ","p","r","o","v","i","d","e","d"," ","t","o","g","e","t","h","e","r">>
    [] s = "At least one vector is required" ->
         <<"A","t"," ","l","e","a","s","t"," ","o","n","e"," ","v","e","c","t","o","r"," ","i","s"," ","r","e","q","u","i","r","e","d">>
    [] s = "b1" ->
         <<"b","1">>
    [] s = " new " ->
         <<" ","n","e","w"," ">>
    [] s = "new" ->
         <<"n","e","w">>
    [] s = "backup.zip" ->
         <<"b","a","c","k","u","p",".","z","i","p">>
    [] s = "backup.tar.gz" ->
         <<"b","a","c","k","u","p",".","t","a","r",".","g","z">>
    [] s = "old.tar.gz.bak" ->
         <<"o","l","d",".","t","a","r",".","g","z",".","b","a","k">>
    [] s = "B.TAR.GZ" ->
         <<"B",".","T","A","R",".","G","Z">>
    [] s = ".tar.gz" ->
         <<".","t","a","r",".","g","z">>
    [] s = "-1" ->
         <<"-","1">>
    [] s = "100" ->
         <<"1","0","0">>
    [] s = "1.5" ->
         <<"1",".","5">>
    [] s = " {\"a\":1} " ->
         <<" ","{","\"","a","\"",":","1","}"," ">>
    [] s = "false" ->
         <<"f","a","l","s","e">>
    [] s = "768" ->
         <<"7","6","8">>
    [] s = "a b" ->
         <<"a"," ","b">>

UpperCase == <<"A","B","C","D","E","F","G","H","I","J","K","L","M",
               "N","O","P","Q","R","S","T","U","V","W","X","Y","Z">>
LowerCase == <<"a","b","c","d","e","f","g","h","i","j","k","l","m",
               "n","o","p","q","r","s","t","u","v","w","x","y","z">>

\* String.prototype.toLowerCase, one character
LowerOf == [c \in {UpperCase[i] : i \in 1..26} |->
              LowerCase[CHOOSE i \in 1..26 : UpperCase[i] = c]]
LowerChar(c) == IF c \in DOMAIN LowerOf THEN LowerOf[c] ELSE c

\* String.prototype.toLowerCase
ToLowerCase(cs) == [i \in 1..Len(cs) |-> LowerChar(cs[i])]

\* String.prototype.includes
Includes(cs, pat) ==
  \E i \in 0..(Len(cs) - Len(pat)) : SubSeq(cs, i + 1, i + Len(pat)) = pat

(***************************************************************************)
(* JavaScript text primitives used by the form parsers.                    *)
(***************************************************************************)
DigitChars == <<"0","1","2","3","4","5","6","7","8","9">>
IsDigit(c) == \E d \in 1..10 : DigitChars[d] = c
DigitVal(c) == (CHOOSE d \in 1..10 : DigitChars[d] = c) - 1
IsWs(c) == c \in {" ", "\n", "\t"}

\* first position >= i of cs that is not white space (Len(cs)+1 if none)
SkipWs(cs, i) ==
  CHOOSE j \in i..(Len(cs) + 1) :
    /\ \A m \in i..(j - 1) : IsWs(cs[m])
    /\ (j <= Len(cs) => ~IsWs(cs[j]))

\* first position >= i of cs that is not a digit (Len(cs)+1 if none)
SkipDigits(cs, i) ==
  CHOOSE j \in i..(Len(cs) + 1) :
    /\ \A m \in i..(j - 1) : IsDigit(cs[m])
    /\ (j <= Len(cs) => ~IsDigit(cs[j]))

\* String.prototype.trim
Trim(cs) ==
  LET b == SkipWs(cs, 1)
      e == IF b > Len(cs) THEN 0
           ELSE CHOOSE j \in b..Len(cs) :
                  /\ ~IsWs(cs[j])
                  /\ \A m \in (j + 1)..Len(cs) : IsWs(cs[m])
  IN IF b > Len(cs) THEN << >> ELSE SubSeq(cs, b, e)

\* text.trim() is the empty string (falsy)
IsBlank(s) == Trim(Chars(s)) = << >>

RECURSIVE DecimalValue(_)
DecimalValue(ds) ==
  IF ds = << >> THEN 0
  ELSE 10 * DecimalValue(SubSeq(ds, 1, Len(ds) - 1)) + DigitVal(ds[Len(ds)])

\* a JavaScript number that may be NaN
NaN == [nan |-> TRUE]
Num(n) == [nan |-> FALSE, n |-> n]
IsNaN(v) == v.nan
\* v <= c, v < c, v > c as JavaScript compares (false when v is NaN)
NumLE(v, c) == ~v.nan /\ v.n <= c
NumLT(v, c) == ~v.nan /\ v.n < c
NumGT(v, c) == ~v.nan /\ v.n > c

\* parseInt(text): leading white space, an optional sign, then the longest
\* run of decimal digits; NaN when there is no digit.  (No text of the model
\* starts with 0x, so the radix is always 10.)
ParseInt(s) ==
  LET cs == Chars(s)
      b  == SkipWs(cs, 1)
      signed == b <= Len(cs) /\ cs[b] \in {"-", "+"}
      d  == IF signed THEN b + 1 ELSE b
      e  == SkipDigits(cs, d)
      mag == DecimalValue(SubSeq(cs, d, e - 1))
  IN IF e = d THEN NaN
     ELSE IF signed /\ cs[b] = "-" THEN Num(0 - mag) ELSE Num(mag)

(***************************************************************************)
(* JSON.parse on the characters of a text.  Values are tagged records:     *)
(* numbers keep their literal, strings their characters (the texts of the  *)
(* model contain no escape sequence), arrays their items, objects their    *)
(* members in order.                                                       *)
(***************************************************************************)
JsonFail == [ok |-> FALSE]
JsonOk(v, next) == [ok |-> TRUE, val |-> v, next |-> next]

\* end (exclusive) of the digits that must start at position d, 0 if none
JsonDigitsEnd(cs, d) ==
  IF d <= Len(cs) /\ IsDigit(cs[d]) THEN SkipDigits(cs, d) ELSE 0

\* end of the integer part starting at a: a single 0, or a run of digits
JsonIntEnd(cs, a) ==
  IF a <= Len(cs) /\ cs[a] = "0" THEN a + 1 ELSE JsonDigitsEnd(cs, a)

\* end of the optional fraction after the integer part ending at intEnd
JsonFracEnd(cs, intEnd) ==
  IF intEnd = 0 THEN 0
  ELSE IF intEnd <= Len(cs) /\ cs[intEnd] = "." THEN JsonDigitsEnd(cs, intEnd + 1)
  ELSE intEnd

\* end of the optional exponent after the fraction ending at fracEnd
JsonExpEnd(cs, fracEnd) ==
  IF fracEnd = 0 THEN 0
  ELSE IF fracEnd <= Len(cs) /\ cs[fracEnd] \in {"e", "E"}
    THEN JsonDigitsEnd(cs, IF fracEnd + 1 <= Len(cs) /\ cs[fracEnd + 1] \in {"+", "-"}
                             THEN fracEnd + 2 ELSE fracEnd + 1)
  ELSE fracEnd

\* end (exclusive) of the JSON number starting at i, 0 if there is none
JsonNumberEnd(cs, i) ==
  JsonExpEnd(cs, JsonFracEnd(cs, JsonIntEnd(cs, IF i <= Len(cs) /\ cs[i] = "-"
                                                  THEN i + 1 ELSE i)))

\* position of the closing quote of the string opened at i, 0 if unterminated
JsonStringClose(cs, i) ==
  IF \E j \in (i + 1)..Len(cs) : cs[j] = "\""
    THEN CHOOSE j \in (i + 1)..Len(cs) :
           cs[j] = "\"" /\ \A m \in (i + 1)..(j - 1) : cs[m] # "\""
    ELSE 0

JsonLiterals == << <<"t","r","u","e">>, <<"f","a","l","s","e">>, <<"n","u","l","l">> >>

\* the characters of cs from position i on begin with pat
StartsWithAt(cs, i, pat) ==
  i + Len(pat) - 1 <= Len(cs) /\ SubSeq(cs, i, i + Len(pat) - 1) = pat

\* the literal (true, false, null) that starts at position i, 0 if none
JsonLiteralAt(cs, i) ==
  IF \E l \in 1..3 : StartsWithAt(cs, i, JsonLiterals[l])
    THEN CHOOSE l \in 1..3 : StartsWithAt(cs, i, JsonLiterals[l])
    ELSE 0

\* the string whose opening quote is at i and closing quote at c (0: none)
JsonStringTo(cs, i, c) ==
  IF c = 0 THEN JsonFail
  ELSE JsonOk([t |-> "string", chars |-> SubSeq(cs, i + 1, c - 1)], c + 1)

\* the number from position i to e exclusive (0: none)
JsonNumberTo(cs, i, e) ==
  IF e = 0 THEN JsonFail ELSE JsonOk([t |-> "number", lit |-> SubSeq(cs, i, e - 1)], e)

\* the literal number l at position i
JsonLiteralTo(i, l) ==
  JsonOk([t |-> "literal", name |-> JsonLiterals[l]], i + Len(JsonLiterals[l]))

\* the next position that is not white space after the value v
JsonNextPos(cs, v) == IF v.ok THEN SkipWs(cs, v.next) ELSE Len(cs) + 1

RECURSIVE JsonValue(_, _), JsonElements(_, _, _), JsonMembers(_, _, _)
RECURSIVE JsonAfterElement(_, _, _), JsonAfterKey(_, _, _)
RECURSIVE JsonAfterMember(_, _, _, _)

\* the JSON value starting at position i (white space already skipped)
JsonValue(cs, i) ==
  IF i > Len(cs) THEN JsonFail
  ELSE IF cs[i] = "[" THEN JsonElements(cs, SkipWs(cs, i + 1), << >>)
  ELSE IF cs[i] = "{" THEN JsonMembers(cs, SkipWs(cs, i + 1), << >>)
  ELSE IF cs[i] = "\"" THEN JsonStringTo(cs, i, JsonStringClose(cs, i))
  ELSE IF JsonLiteralAt(cs, i) # 0 THEN JsonLiteralTo(i, JsonLiteralAt(cs, i))
  ELSE JsonNumberTo(cs, i, JsonNumberEnd(cs, i))

\* after the element v of an array
JsonAfterElement(cs, items, v) ==
  IF JsonNextPos(cs, v) > Len(cs) THEN JsonFail
  ELSE IF cs[JsonNextPos(cs, v)] = "]"
    THEN JsonOk([t |-> "array", items |-> Append(items, v.val)], JsonNextPos(cs, v) + 1)
  ELSE IF cs[JsonNextPos(cs, v)] = ","
    THEN JsonElements(cs, SkipWs(cs, JsonNextPos(cs, v) + 1), Append(items, v.val))
  ELSE JsonFail

\* the elements of an array from position i on, after the items read so far
\* (an array with no item closes at once)
JsonElements(cs, i, items) ==
  IF items = << >> /\ i <= Len(cs) /\ cs[i] = "]"
    THEN JsonOk([t |-> "array", items |-> << >>], i + 1)
    ELSE JsonAfterElement(cs, items, JsonValue(cs, i))

\* after the member k : v of an object
JsonAfterMember(cs, members, k, v) ==
  IF JsonNextPos(cs, v) > Len(cs) THEN JsonFail
  ELSE IF cs[JsonNextPos(cs, v)] = "}"
    THEN JsonOk([t |-> "object",
                 members |-> Append(members, [key |-> k.val.chars, val |-> v.val])],
                JsonNextPos(cs, v) + 1)
  ELSE IF cs[JsonNextPos(cs, v)] = ","
    THEN JsonMembers(cs, SkipWs(cs, JsonNextPos(cs, v) + 1),
                     Append(members, [key |-> k.val.chars, val |-> v.val]))
  ELSE JsonFail

\* after the key k of a member
JsonAfterKey(cs, members, k) ==
  IF JsonNextPos(cs, k) <= Len(cs) /\ cs[JsonNextPos(cs, k)] = ":"
    THEN JsonAfterMember(cs, members, k,
                         JsonValue(cs, SkipWs(cs, JsonNextPos(cs, k) + 1)))
    ELSE JsonFail

\* the members of an object from position i on, after the members read so far
\* (an object with no member closes at once)
JsonMembers(cs, i, members) ==
  IF members = << >> /\ i <= Len(cs) /\ cs[i] = "}"
    THEN JsonOk([t |-> "object", members |-> << >>], i + 1)
  ELSE IF i <= Len(cs) /\ cs[i] = "\""
    THEN JsonAfterKey(cs, members, JsonStringTo(cs, i, JsonStringClose(cs, i)))
  ELSE JsonFail

\* the whole text is one value v followed by white space only
JsonWhole(cs, v) ==
  IF v.ok /\ SkipWs(cs, v.next) = Len(cs) + 1 THEN [ok |-> TRUE, val |-> v.val]
  ELSE JsonFail

\* JSON.parse: [ok |-> TRUE, val |-> value], or [ok |-> FALSE] for a SyntaxError
JsonParse(cs) == JsonWhole(cs, JsonValue(cs, SkipWs(cs, 1)))

\* JSON.parse(`[${text}]`)
ParseBracketed(s) == JsonParse(<<"[">> \o Chars(s) \o <<"]">>)

(***************************************************************************)
(* State of the authentication context and of the adapter module.          *)
(***************************************************************************)
VARIABLES
  token,              \* AuthProvider: token state (string or Null)
  showAuthModal,      \* AuthProvider: showAuthModal state
  localToken,         \* localStorage entry 'endee_auth_token' (Null = absent)
  storageEffectDue,   \* AuthProvider effect on [token] not yet run
  endeeEffectDue,     \* Header effect on [token] (reinitializeEndee) not yet run
  endee,              \* api/client: module variable endee (NoEndee or a client)
  onUnauthorized,     \* api/client: module variable onUnauthorized
  apiInflight,        \* the adapter call awaiting the endee client (NoCall if none)
  apiResult,          \* how the last adapter call settled (NoResult before any)
  net,                \* raw fetch calls awaiting their response, oldest first
  unhandled,          \* rejections that no handler caught (unhandledrejection)
  tutorial,           \* TutorialsPage: stepPayloads, stepResults, runningSteps
  searchPage,         \* SearchPage: the useState values of the page
  createIndexPage,    \* CreateIndexPage: the useState values of the page
  insertPage,         \* VectorInsertPage: the useState values of the page
  backupsPage,        \* BackupsPage: the useState values of the page
  notification,       \* NotificationProvider: notification state, timerRef, its timeouts
  detailPage,         \* IndexDetailPage: the useState values of the page
  getPage             \* VectorGetPage: the useState values of the page

authVars == <<token, showAuthModal, localToken, storageEffectDue, endeeEffectDue>>
clientVars == <<endee, onUnauthorized>>
adapterVars == <<apiInflight, apiResult>>
fetchVars == <<net, unhandled>>
pageVars == <<fetchVars, tutorial, searchPage, createIndexPage, insertPage,
              backupsPage, notification,
              detailPage,
              getPage>>
\* what the actions of one page leave alone
besidesTutorial == <<searchPage, createIndexPage, insertPage, backupsPage, notification,
              detailPage,
              getPage>>
besidesSearch == <<fetchVars, tutorial, createIndexPage, insertPage, backupsPage, notification,
              detailPage,
              getPage>>
besidesCreate == <<fetchVars, tutorial, searchPage, insertPage, backupsPage, notification,
              detailPage,
              getPage>>
besidesInsert == <<fetchVars, tutorial, searchPage, createIndexPage, backupsPage, notification,
              detailPage,
              getPage>>
besidesBackups == <<tutorial, searchPage, createIndexPage, insertPage,
              detailPage,
              getPage>>
besidesGet == <<fetchVars, tutorial, searchPage, createIndexPage, insertPage, backupsPage,
                notification, detailPage>>
besidesDetail == <<tutorial, searchPage, createIndexPage, insertPage, backupsPage,
                   notification,
              getPage>>

Tokens == {"", "tokA", "tokB"}

(***************************************************************************)
(* api/client: the adapter module                                          *)
(***************************************************************************)
\* what the endee client raises: an Error with a message, or a non-Error value
ErrMessages == {"HTTP 401", "Invalid Token", "invalid  token", "Not found"}
ErrorOf(m) == [isError |-> TRUE, message |-> m]
NonError == [isError |-> FALSE]
Thrown == {ErrorOf(m) : m \in ErrMessages} \cup {NonError}

\* getStoredToken
getStoredToken == localToken

\* the module variable endee before any client is built (JavaScript null)
NoEndee == [absent |-> TRUE]

\* new Endee(token); setBaseUrl("/api/v1")
NewEndee(tok) == [token |-> tok, baseUrl |-> "/api/v1"]

\* getEndeeClient: the value of the module variable endee after the call
getEndeeClient == IF endee = NoEndee THEN NewEndee(getStoredToken) ELSE endee

\* a variant that keeps an existing client instead of rebuilding it
reinitializeEndeeKeep(tok) == IF endee = NoEndee THEN NewEndee(tok) ELSE endee

\* reinitializeEndee: the value of the module variable endee after the call
reinitializeEndee(tok) == NewEndee(tok)

\* a variant that matches the indicators without lower-casing the message
isUnauthorizedErrorExact(error) ==
  IF error.isError
    THEN Includes(Chars(error.message), <<"4","0","1">>)
           \/ Includes(Chars(error.message), Chars("invalid token"))
    ELSE FALSE

\* isUnauthorizedError
isUnauthorizedError(error) ==
  IF error.isError
    THEN LET message == ToLowerCase(Chars(error.message))
         IN Includes(message, <<"4","0","1">>)
              \/ Includes(message, Chars("invalid token"))
    ELSE FALSE

\* handleApiError: whether it invokes the registered callback
callsOnUnauthorized(error) == isUnauthorizedError(error) /\ onUnauthorized # Null

\* a variant that reads error.message without the instanceof check
handleApiErrorNoFallback(error) ==
  [success |-> FALSE, error |-> IF error.isError THEN error.message ELSE Null]

\* handleApiError: the envelope it returns
handleApiError(error) ==
  [success |-> FALSE,
   error |-> IF error.isError THEN error.message ELSE "Unknown error"]

\* mapPrecision
mapPrecision(precision) ==
  LET p == ToLowerCase(Chars(precision))
  IN CASE p = Chars("binary")  -> "Precision.BINARY"
       [] p = Chars("int8d")   -> "Precision.INT8D"
       [] p = Chars("int16d")  -> "Precision.INT16D"
       [] p = Chars("float16") -> "Precision.FLOAT16"
       [] p = Chars("float32") -> "Precision.FLOAT32"
       [] OTHER                -> "Precision.FLOAT16"

\* formatSpaceType
formatSpaceType(space_type) ==
  CASE space_type = "cosine" -> "Cosine"
    [] space_type = "l2"     -> "Euclidean"
    [] space_type = "ip"     -> "Inner Product"
    [] OTHER                 -> "Unknown"

\* an optional property of a JavaScript object
Has(obj, f) == f \in DOMAIN obj
\* obj extended with property f
With(obj, f, v) == [g \in DOMAIN obj \cup {f} |-> IF g = f THEN v ELSE obj[g]]
\* truthiness of an optional number / text property
TruthyNum(obj, f) == Has(obj, f) /\ obj[f] # 0
TruthyText(obj, f) == Has(obj, f) /\ obj[f] # ""

\* The body of a try block ends by returning data or by raising.
Returned(data, calls) == [raised |-> FALSE, data |-> data, calls |-> calls]
Raised(error, calls) == [raised |-> TRUE, error |-> error, calls |-> calls]

\* What the endee client does with one adapter call: env.index is the
\* outcome of getIndex, env.call that of the operation itself; an outcome is
\* [throws |-> TRUE, error |-> e] or [throws |-> FALSE, value |-> v].
Throws(e) == [throws |-> TRUE, error |-> e]
Gives(v) == [throws |-> FALSE, value |-> v]
ClientCall(method, arg) == [method |-> method, arg |-> arg]
GetIndexCall(indexName) == ClientCall("getIndex", [name |-> indexName])

\* try block of ApiClient.health
healthBody(args, env) ==
  LET calls == <<ClientCall("listIndexes", [none |-> TRUE])>>
  IN IF env.call.throws THEN Raised(env.call.error, calls)
     ELSE Returned([status |-> "ok"], calls)

\* the index list entry built by listIndexes from a raw entry
MapIndex(idx) ==
  [name |-> idx.name, M |-> idx.M, total_elements |-> idx.total_elements,
   space_type |-> formatSpaceType(idx.space_type), precision |-> idx.precision,
   created_at |-> idx.created_at, dimension |-> idx.dimension,
   sparse_dim |-> IF TruthyNum(idx, "sparse_dim") THEN idx.sparse_dim ELSE 0]

\* try block of ApiClient.listIndexes
listIndexesBody(args, env) ==
  LET calls == <<ClientCall("listIndexes", [none |-> TRUE])>>
      response == env.call.value
      rawIndexes == IF Has(response, "indexes") THEN response.indexes ELSE << >>
  IN IF env.call.throws THEN Raised(env.call.error, calls)
     ELSE Returned([indexes |-> [i \in 1..Len(rawIndexes) |-> MapIndex(rawIndexes[i])]],
                   calls)

\* try block of ApiClient.getIndexInfo
getIndexInfoBody(args, env) ==
  LET calls == <<GetIndexCall(args.indexName)>>
  IN IF env.index.throws THEN Raised(env.index.error, calls)
     ELSE Returned(env.index.value.description, calls)

\* obj, extended with property f when cond holds
WithIf(cond, obj, f, v) == IF cond THEN With(obj, f, v) ELSE obj

\* the CreateIndexOptions built by ApiClient.createIndex
createOptions(args) ==
  WithIf(TruthyNum(args.options, "ef_con"),
    WithIf(TruthyNum(args.options, "M"),
      WithIf(TruthyNum(args.options, "sparse_dim") /\ args.options.sparse_dim > 0,
        WithIf(TruthyText(args.options, "precision"),
               [name |-> args.indexName, dimension |-> args.dimension,
                spaceType |-> args.spaceType],
               "precision", mapPrecision(args.options.precision)),
        "sparseDimension", args.options.sparse_dim),
      "M", args.options.M),
    "efCon", args.options.ef_con)

\* try block of ApiClient.createIndex
createIndexBody(args, env) ==
  LET calls == <<ClientCall("createIndex", createOptions(args))>>
  IN IF env.call.throws THEN Raised(env.call.error, calls)
     ELSE Returned([success |-> TRUE, message |-> "Index created successfully"], calls)

\* try block of ApiClient.deleteIndex
deleteIndexBody(args, env) ==
  LET calls == <<ClientCall("deleteIndex", [name |-> args.indexName])>>
  IN IF env.call.throws THEN Raised(env.call.error, calls)
     ELSE Returned([success |-> TRUE, message |-> "Index deleted successfully"], calls)

\* try block of ApiClient.insertVectors
insertVectorsBody(args, env) ==
  LET c1 == <<GetIndexCall(args.indexName)>>
      c2 == Append(c1, ClientCall("upsert", [vectors |-> args.vectors]))
  IN IF env.index.throws THEN Raised(env.index.error, c1)
     ELSE IF env.call.throws THEN Raised(env.call.error, c2)
     ELSE Returned([success |-> TRUE, inserted |-> Len(args.vectors)], c2)

\* try block of ApiClient.getVector
getVectorBody(args, env) ==
  LET c1 == <<GetIndexCall(args.indexName)>>
      c2 == Append(c1, ClientCall("getVector", [id |-> args.request.id]))
      result == env.call.value
  IN IF env.index.throws THEN Raised(env.index.error, c1)
     ELSE IF TruthyText(args.request, "id")
       THEN (IF env.call.throws THEN Raised(env.call.error, c2)
             ELSE IF ~result.found THEN Raised(ErrorOf("Vector not found"), c2)
             ELSE Returned([id |-> result.id, meta |-> result.meta,
                            filter |-> result.filter, norm |-> result.norm,
                            vector |-> result.vector], c2))
     ELSE Raised(ErrorOf("Either id or filter must be provided"), c1)

\* try block of ApiClient.deleteVectorById
deleteVectorByIdBody(args, env) ==
  LET c1 == <<GetIndexCall(args.indexName)>>
      c2 == Append(c1, ClientCall("deleteVector", [id |-> args.vectorId]))
  IN IF env.index.throws THEN Raised(env.index.error, c1)
     ELSE IF env.call.throws THEN Raised(env.call.error, c2)
     ELSE Returned([success |-> TRUE, message |-> "Vector deleted successfully"], c2)

\* try block of ApiClient.deleteVectorsByFilter
deleteVectorsByFilterBody(args, env) ==
  LET c1 == <<GetIndexCall(args.indexName)>>
      c2 == Append(c1, ClientCall("deleteWithFilter", [filter |-> args.filter]))
      result == env.call.value
  IN IF env.index.throws THEN Raised(env.index.error, c1)
     ELSE IF env.call.throws THEN Raised(env.call.error, c2)
     ELSE Returned([success |-> TRUE,
                    deleted |-> IF result.isNumber THEN result.n ELSE 0], c2)

\* a variant that sets the property for a filter that parses to an object only
parsedFilterObjects(request) ==
  IF TruthyText(request, "filter") /\ JsonParse(Chars(request.filter)).ok
     /\ JsonParse(Chars(request.filter)).val.t = "object"
    THEN JsonParse(Chars(request.filter)) ELSE JsonFail

\* if (request.filter) try { JSON.parse(request.filter) } catch { }:
\* a filter that is absent, empty or not JSON sets no property
parsedFilter(request) ==
  IF TruthyText(request, "filter") THEN JsonParse(Chars(request.filter)) ELSE JsonFail

\* the QueryOptions built by ApiClient.searchVectors
queryOptions(request) ==
  WithIf(Has(request, "sparse_values"),
    WithIf(Has(request, "sparse_indices"),
      WithIf(Has(request, "include_vectors") /\ request.include_vectors,
        WithIf(parsedFilter(request).ok,
          WithIf(TruthyNum(request, "ef"),
                 [vector |-> request.vector, topK |-> request.k],
                 "ef", request.ef),
          "filter", parsedFilter(request).val),
        "includeVectors", request.include_vectors),
      "sparseIndices", request.sparse_indices),
    "sparseValues", request.sparse_values)

\* try block of ApiClient.searchVectors
searchVectorsBody(args, env) ==
  LET c1 == <<GetIndexCall(args.indexName)>>
      c2 == Append(c1, ClientCall("query", queryOptions(args.request)))
  IN IF env.index.throws THEN Raised(env.index.error, c1)
     ELSE IF env.call.throws THEN Raised(env.call.error, c2)
     ELSE Returned(env.call.value, c2)

OpNames == {"health", "listIndexes", "getIndexInfo", "createIndex", "deleteIndex",
            "insertVectors", "getVector", "deleteVectorById",
            "deleteVectorsByFilter", "searchVectors"}

\* the try block of each ApiClient method
TryBody(op, args, env) ==
  CASE op = "health"                -> healthBody(args, env)
    [] op = "listIndexes"           -> listIndexesBody(args, env)
    [] op = "getIndexInfo"          -> getIndexInfoBody(args, env)
    [] op = "createIndex"           -> createIndexBody(args, env)
    [] op = "deleteIndex"           -> deleteIndexBody(args, env)
    [] op = "insertVectors"         -> insertVectorsBody(args, env)
    [] op = "getVector"             -> getVectorBody(args, env)
    [] op = "deleteVectorById"      -> deleteVectorByIdBody(args, env)
    [] op = "deleteVectorsByFilter" -> deleteVectorsByFilterBody(args, env)
    [] op = "searchVectors"         -> searchVectorsBody(args, env)

\* How an ApiClient method settles when its try block ended as b:
\* try { body } catch (error) { return handleApiError(error) }.  A promise
\* that rejects would settle as [rejected |-> TRUE, error |-> e].
SettleBody(op, b) ==
  IF b.raised
    THEN [rejected |-> FALSE, op |-> op, raised |-> TRUE, thrown |-> b.error,
          calls |-> b.calls, envelope |-> handleApiError(b.error)]
    ELSE [rejected |-> FALSE, op |-> op, raised |-> FALSE, thrown |-> NonError,
          calls |-> b.calls, envelope |-> [success |-> TRUE, data |-> b.data]]

ApiSettle(op, args, env) == SettleBody(op, TryBody(op, args, env))

(***************************************************************************)
(* context/AuthContext: AuthProvider                                       *)
(***************************************************************************)
Truthy(text) == text # Null /\ text # ""

\* setTokenState(v): React re-renders, and so re-runs the effects that depend
\* on token, only when the value changes.
SetTokenState(v) ==
  /\ token' = v
  /\ storageEffectDue' = (storageEffectDue \/ v # token)
  /\ endeeEffectDue' = (endeeEffectDue \/ v # token)

\* a variant that clears the token without opening the modal
handleUnauthorizedQuiet == [token |-> Null, showAuthModal |-> showAuthModal]

\* handleUnauthorized: the token and modal state it sets
handleUnauthorized == [token |-> Null, showAuthModal |-> TRUE]

\* the callback registered by Header runs
RunOnUnauthorized ==
  /\ SetTokenState(handleUnauthorized.token)
  /\ showAuthModal' = handleUnauthorized.showAuthModal
  /\ UNCHANGED localToken

setToken(newToken) ==
  /\ SetTokenState(newToken)
  /\ showAuthModal' = IF Truthy(newToken) THEN FALSE ELSE showAuthModal
  /\ UNCHANGED <<localToken, clientVars, adapterVars, pageVars>>

clearToken ==
  /\ SetTokenState(Null)
  /\ UNCHANGED <<showAuthModal, localToken, clientVars, adapterVars, pageVars>>

openAuthModal ==
  /\ showAuthModal' = TRUE
  /\ UNCHANGED <<token, localToken, storageEffectDue, endeeEffectDue,
                 clientVars, adapterVars, pageVars>>

closeAuthModal ==
  /\ showAuthModal' = FALSE
  /\ UNCHANGED <<token, localToken, storageEffectDue, endeeEffectDue,
                 clientVars, adapterVars, pageVars>>

\* a 401 seen by a page that calls handleUnauthorized of the auth context
UnauthorizedSeen ==
  /\ RunOnUnauthorized
  /\ UNCHANGED <<clientVars, adapterVars, pageVars>>

\* a variant of the storage effect that never removes the entry
storedAfterEffectKeep == IF Truthy(token) THEN token ELSE localToken

\* AuthProvider effect on [token]: the localStorage entry it leaves
storedAfterEffect == IF Truthy(token) THEN token ELSE Null

AuthProviderEffect ==
  /\ storageEffectDue
  /\ localToken' = storedAfterEffect
  /\ storageEffectDue' = FALSE
  /\ UNCHANGED <<token, showAuthModal, endeeEffectDue, clientVars, adapterVars, pageVars>>

(***************************************************************************)
(* App: Header effects                                                     *)
(***************************************************************************)
\* useEffect(() => { reinitializeEndee(token) }, [token])
HeaderReinitEffect ==
  /\ endeeEffectDue
  /\ endee' = reinitializeEndee(token)
  /\ endeeEffectDue' = FALSE
  /\ UNCHANGED <<token, showAuthModal, localToken, storageEffectDue,
                 onUnauthorized, adapterVars, pageVars>>

\* useEffect(() => { setOnUnauthorized(handleUnauthorized); ... })
HeaderRegisterEffect ==
  /\ onUnauthorized = Null
  /\ onUnauthorized' = "handleUnauthorized"
  /\ UNCHANGED <<authVars, endee, adapterVars, pageVars>>

\* the effect's cleanup: setOnUnauthorized(null)
HeaderCleanup ==
  /\ onUnauthorized # Null
  /\ onUnauthorized' = Null
  /\ UNCHANGED <<authVars, endee, adapterVars, pageVars>>

(***************************************************************************)
(* Calls of the adapter                                                    *)
(***************************************************************************)
NoResult == [none |-> TRUE]
NoArgs == [none |-> TRUE]
EmptyObject == [f \in {} |-> 0]

SampleRawIndexes ==
  << [name |-> "idx", M |-> 16, total_elements |-> 3, space_type |-> "l2",
      precision |-> "float16", created_at |-> 1700000000, dimension |-> 4,
      sparse_dim |-> 8],
     [name |-> "old", M |-> 16, total_elements |-> 0, space_type |-> "hamming",
      precision |-> "int8d", created_at |-> 1700000001, dimension |-> 4] >>
SampleDescription == [name |-> "idx", dimension |-> 4, isHybrid |-> FALSE]
SampleVector == [found |-> TRUE, id |-> "v1", meta |-> "m", filter |-> "f",
                 norm |-> 1, vector |-> <<1, 2>>]
SampleFilter == JsonParse(Chars("{\"a\":1}")).val
SampleItem == [id |-> "v1", vector |-> <<1, 2>>]
SampleResults == << [id |-> "v1", similarity |-> 1] >>

\* arguments the adapter methods are called with in AdapterSpec
ArgsOf(op) ==
  CASE op \in {"health", "listIndexes"} -> {NoArgs}
    [] op \in {"getIndexInfo", "deleteIndex"} -> {[indexName |-> "idx"]}
    [] op = "createIndex" ->
         {[indexName |-> "idx", dimension |-> 4, spaceType |-> "cosine", options |-> o] :
            o \in {EmptyObject, [precision |-> "Float32", sparse_dim |-> 8, M |-> 0, ef_con |-> 128]}}
    [] op = "insertVectors" ->
         {[indexName |-> "idx", vectors |-> vs] : vs \in {<< >>, <<SampleItem>>}}
    [] op = "getVector" ->
         {[indexName |-> "idx", request |-> r] : r \in {EmptyObject, [id |-> ""], [id |-> "v1"]}}
    [] op = "deleteVectorById" -> {[indexName |-> "idx", vectorId |-> "v1"]}
    [] op = "deleteVectorsByFilter" -> {[indexName |-> "idx", filter |-> SampleFilter]}
    [] op = "searchVectors" ->
         {[indexName |-> "idx", request |-> r] :
            r \in {[vector |-> <<1, 2>>, k |-> 5],
                   [vector |-> <<1, 2>>, k |-> 5, ef |-> 0, filter |-> "{\"a\":1}",
                    include_vectors |-> TRUE]}}

\* what the operation on the endee client can return
ValuesOf(op) ==
  CASE op = "listIndexes" -> {EmptyObject, [indexes |-> SampleRawIndexes]}
    [] op = "getVector" -> {[found |-> FALSE], SampleVector}
    [] op = "deleteVectorsByFilter" -> {[isNumber |-> TRUE, n |-> 2], [isNumber |-> FALSE]}
    [] op = "searchVectors" -> {<< >>, SampleResults}
    [] OTHER -> {NoArgs}

\* methods that go through getIndex before the operation itself
UsesGetIndex(op) ==
  op \in {"getIndexInfo", "insertVectors", "getVector", "deleteVectorById",
          "deleteVectorsByFilter", "searchVectors"}

NotReached == [throws |-> FALSE, reached |-> FALSE]

\* what the endee client can do with one adapter call
EnvOf(op) ==
  LET callOutcomes == {Gives(v) : v \in ValuesOf(op)} \cup {Throws(e) : e \in Thrown}
      handle == Gives([description |-> SampleDescription])
  IN IF UsesGetIndex(op)
       THEN {[index |-> Throws(e), call |-> NotReached] : e \in Thrown}
              \cup (IF op = "getIndexInfo"
                      THEN {[index |-> handle, call |-> NotReached]}
                      ELSE {[index |-> handle, call |-> c] : c \in callOutcomes})
       ELSE {[index |-> NotReached, call |-> c] : c \in callOutcomes}

NoCall == [none |-> TRUE]

\* An adapter method is called: getEndeeClient() yields the client the
\* request goes through, and the method awaits it.
ApiBegin(op, args) ==
  /\ apiInflight = NoCall
  /\ endee' = getEndeeClient
  /\ apiInflight' = [op |-> op, args |-> args, clientToken |-> endee'.token]
  /\ UNCHANGED <<authVars, onUnauthorized, apiResult>>

\* The awaited client call settles and the adapter method returns; when
\* handleApiError invoked the registered callback, its effect on the auth
\* context is part of the step.
ApiSettled(env, r, invoked) ==
  /\ apiInflight # NoCall
  /\ apiInflight' = NoCall
  /\ apiResult' = [call |-> apiInflight, env |-> env, settled |-> r,
                   callbacks |-> IF invoked THEN 1 ELSE 0]
  /\ IF invoked THEN RunOnUnauthorized ELSE UNCHANGED authVars
  /\ UNCHANGED clientVars

\* The same step seen from a page: the awaiting handler takes the envelope
\* of r, nothing else keeps it.
ApiResolved(r, invoked) ==
  /\ apiInflight # NoCall
  /\ apiInflight' = NoCall
  /\ IF invoked THEN RunOnUnauthorized ELSE UNCHANGED authVars
  /\ UNCHANGED <<clientVars, apiResult>>

\* whether the catch block reached for the settled call r invokes the callback
InvokesCallback(r) == r.raised /\ callsOnUnauthorized(r.thrown)

ApiComplete(env) ==
  /\ apiInflight # NoCall
  /\ ApiSettled(env, ApiSettle(apiInflight.op, apiInflight.args, env),
                InvokesCallback(ApiSettle(apiInflight.op, apiInflight.args, env)))

AdapterCall ==
  /\ \E op \in OpNames : \E args \in ArgsOf(op) : ApiBegin(op, args)
  /\ UNCHANGED pageVars
AdapterReturn ==
  /\ apiInflight # NoCall
  /\ \E env \in EnvOf(apiInflight.op) : ApiComplete(env)
  /\ UNCHANGED pageVars

(***************************************************************************)
(* Raw fetch calls of the pages                                            *)
(***************************************************************************)
\* seq without its i-th element
RemoveAt(seq, i) == SubSeq(seq, 1, i - 1) \o SubSeq(seq, i + 1, Len(seq))

\* the text made of the characters cs
RECURSIVE Join(_)
Join(cs) == IF cs = << >> THEN "" ELSE cs[1] \o Join(Tail(cs))

\* encodeURIComponent: the characters it escapes, with their escapes
Escaped ==
  [c \in {" ", "\"", "#", "$", "%", "&", "+", ",", "/", ":", ";", "=", "?", "@",
          "[", "]", "{", "}", "\n"} |->
     CASE c = " " -> "%20" [] c = "\"" -> "%22" [] c = "#" -> "%23"
       [] c = "$" -> "%24" [] c = "%" -> "%25" [] c = "&" -> "%26"
       [] c = "+" -> "%2B" [] c = "," -> "%2C" [] c = "/" -> "%2F"
       [] c = ":" -> "%3A" [] c = ";" -> "%3B" [] c = "=" -> "%3D"
       [] c = "?" -> "%3F" [] c = "@" -> "%40" [] c = "[" -> "%5B"
       [] c = "]" -> "%5D" [] c = "{" -> "%7B" [] c = "}" -> "%7D"
       [] c = "\n" -> "%0A"]
encodeURIComponent(cs) ==
  Join([i \in 1..Len(cs) |-> IF cs[i] \in DOMAIN Escaped THEN Escaped[cs[i]] ELSE cs[i]])

\* ...(token && { Authorization: token }) spread into the headers h
WithAuthorization(h, tok) == WithIf(Truthy(tok), h, "Authorization", tok)
JsonContentType == [ContentType |-> "application/json"]

\* fetch(url, { method, headers, body }) issued at a call site; closure holds
\* the values the continuation of the call site still uses, and issuedWith
\* the auth token of the context at the time of the call
Request(site, method, url, headers, body, closure) ==
  [site |-> site, method |-> method, url |-> url, headers |-> headers,
   body |-> body, closure |-> closure, issuedWith |-> token]
NoBody == [none |-> TRUE]

\* What a fetch settles with: a rejection (network failure), or a response
\* with a status and a body that response.json() parses or rejects.
TypeErrorOf(m) == [isError |-> TRUE, name |-> "TypeError", message |-> m]
SyntaxErrorOf(m) == [isError |-> TRUE, name |-> "SyntaxError", message |-> m]
FetchRejected == [rejected |-> TRUE, error |-> TypeErrorOf("Failed to fetch")]
NotJson == [json |-> FALSE, error |-> SyntaxErrorOf("Unexpected end of JSON input")]
JsonBody(data) == [json |-> TRUE, data |-> data]
Response(status, body) == [rejected |-> FALSE, status |-> status, body |-> body]
\* response.ok
ResponseOk(r) == r.status \in 200..299

\* `${e}` for an Error e
ErrorName(e) == IF Has(e, "name") THEN e.name ELSE "Error"
ErrorText(e) == ErrorName(e) \o ": " \o e.message

\* errorData.error || fallback, after response.json().catch(() => ({}))
ErrorDataMessage(r, fallback) ==
  IF r.body.json /\ TruthyText(r.body.data, "error") THEN r.body.data.error
  ELSE fallback

\* the responses the backend sends to the call sites of the model
ErrorBodies == {NotJson, JsonBody([error |-> "Backup failed"])}
Responses(okData) ==
  {FetchRejected, Response(200, NotJson), Response(200, JsonBody(okData)),
   Response(401, NotJson)}
    \cup {Response(500, b) : b \in ErrorBodies}

(***************************************************************************)
(* pages/TutorialsPage: the steps that use fetch, and runStep              *)
(***************************************************************************)
FetchSteps == {"health", "create-backup", "list-backups", "restore-backup",
               "delete-backup", "upload-backup", "list-jobs"}
\* requiresIndex
RequiresIndex(id) == id = "create-backup"

\* defaultPayload: JSON.stringify(value, null, 2), Null when the step has none
DefaultPayload(id) ==
  CASE id = "create-backup"  -> "{\n  \"name\": \"my_backup\"\n}"
    [] id = "restore-backup" ->
         "{\n  \"backup_name\": \"my_backup\",\n  \"target_index_name\": \"restored_index\"\n}"
    [] id = "delete-backup"  -> "{\n  \"backup_name\": \"my_backup\"\n}"
    [] OTHER                 -> Null

\* the texts typed into the payload editor of a step
PayloadTexts == {"", "{", "null", "{\"backup_name\":\"a b\"}"}

\* a step result: result is a text, or JSON.stringify(data, null, 2)
Text(s) == [text |-> s]
Stringified(data) == [stringify |-> data, indent |-> 2]
StepSuccess(result) == [success |-> TRUE, result |-> result]
StepFailure(result) == [success |-> FALSE, result |-> result]
\* formatResult (the data of the model is never null nor a string)
formatResult(data) == Stringified(data)

\* Where step.run stands at its first await, or how it ended without one:
\* it returned a result, or it waits for the fetch of a request.
StepDone(result) == [done |-> TRUE, result |-> result]
StepAwaits(request) == [done |-> FALSE, request |-> request]

\* the property key of a parsed JSON value (undefined when absent)
JsonUndefined == [t |-> "undefined"]
Member(v, key) ==
  IF v.t = "object" /\ \E i \in 1..Len(v.members) : v.members[i].key = Chars(key)
    THEN v.members[CHOOSE i \in 1..Len(v.members) :
                     /\ v.members[i].key = Chars(key)
                     /\ \A j \in (i + 1)..Len(v.members) : v.members[j].key # Chars(key)].val
    ELSE JsonUndefined
\* destructuring null throws a TypeError
IsJsonNull(v) == v.t = "literal" /\ v.name = <<"n","u","l","l">>
\* String(v) of a parsed property: its characters
StringOf(v) == IF v.t = "string" THEN v.chars ELSE Chars("undefined")

\* try { const { ... } = JSON.parse(payload); fetch(request) } up to the
\* await: parsed is JsonParse of the payload
AfterParse(parsed, request) ==
  IF ~parsed.ok
    THEN StepDone(StepFailure(Text(ErrorText(SyntaxErrorOf("Unexpected end of JSON input")))))
  ELSE IF IsJsonNull(parsed.val)
    THEN StepDone(StepFailure(Text(ErrorText(TypeErrorOf("Cannot destructure property of null")))))
  ELSE StepAwaits(request)

\* body of a request: the object given to JSON.stringify, undefined dropped
BodyOf(name, v) == IF v = JsonUndefined THEN EmptyObject ELSE With(EmptyObject, name, v)

\* the file chosen in the file dialog of the upload step (NoFile: none)
NoFile == "<no file>"
PickedFiles == {NoFile, "backup.tar"}

\* step.run(payload, idx) up to its first await; parsed is JSON.parse(payload)
\* and picked the file chosen in the dialog that the upload step opens
StepRunParsed(id, payload, idx, tok, parsed, picked) ==
  CASE id = "health" ->
         StepAwaits(Request(id, "GET", "/api/v1/health", EmptyObject, NoBody, NoArgs))
    [] id = "create-backup" ->
         IF idx = "" THEN StepDone(StepFailure(Text("Select an index")))
         ELSE IF ~Truthy(payload) THEN StepDone(StepFailure(Text("Payload required")))
         ELSE AfterParse(parsed,
                Request(id, "POST",
                        "/api/v1/index/" \o encodeURIComponent(Chars(idx)) \o "/backup",
                        WithAuthorization(JsonContentType, tok),
                        BodyOf("name", Member(parsed.val, "name")), NoArgs))
    [] id = "list-backups" ->
         StepAwaits(Request(id, "GET", "/api/v1/backups",
                            WithAuthorization(EmptyObject, tok), NoBody, NoArgs))
    [] id = "restore-backup" ->
         IF ~Truthy(payload) THEN StepDone(StepFailure(Text("Payload required")))
         ELSE AfterParse(parsed,
                Request(id, "POST",
                        "/api/v1/backups/"
                          \o encodeURIComponent(StringOf(Member(parsed.val, "backup_name")))
                          \o "/restore",
                        WithAuthorization(JsonContentType, tok),
                        BodyOf("target_index_name", Member(parsed.val, "target_index_name")),
                        [name |-> StringOf(Member(parsed.val, "target_index_name"))]))
    [] id = "delete-backup" ->
         IF ~Truthy(payload) THEN StepDone(StepFailure(Text("Payload required")))
         ELSE AfterParse(parsed,
                Request(id, "DELETE",
                        "/api/v1/backups/"
                          \o encodeURIComponent(StringOf(Member(parsed.val, "backup_name"))),
                        WithAuthorization(EmptyObject, tok), NoBody,
                        [name |-> StringOf(Member(parsed.val, "backup_name"))]))
    [] id = "upload-backup" ->
         IF picked = NoFile
           THEN StepDone(StepFailure(Text(ErrorText(ErrorOf("No file selected")))))
           ELSE StepAwaits(Request(id, "POST", "/api/v1/backups/upload",
                                   WithAuthorization(EmptyObject, tok),
                                   [formData |-> [backup |-> picked]],
                                   [name |-> Chars(picked)]))
    [] id = "list-jobs" ->
         StepAwaits(Request(id, "GET", "/api/v1/backups/jobs",
                            WithAuthorization(JsonContentType, tok), NoBody, NoArgs))

StepRun(id, payload, idx, tok, picked) ==
  StepRunParsed(id, payload, idx, tok,
                IF Truthy(payload) THEN JsonParse(Chars(payload)) ELSE JsonFail, picked)

\* How step.run ends after its fetch settled: it resolves with a result, or
\* it throws and the promise it returned to runStep rejects.
Resolves(result) == [threw |-> FALSE, result |-> result]
Escapes(e) == [threw |-> TRUE, error |-> e]
\* catch (e) { return { success: false, result: `${e}` } }
CatchAll(e) == Resolves(StepFailure(Text(ErrorText(e))))

\* the health step: no try block
healthAfter(r) ==
  IF r.rejected THEN Escapes(r.error)
  ELSE IF ~ResponseOk(r) THEN Escapes(ErrorOf("Failed to fetch backups"))
  ELSE IF ~r.body.json THEN Escapes(r.body.error)
  ELSE Resolves(StepSuccess(formatResult(r.body.data)))

\* create-backup, restore-backup, delete-backup, upload-backup
WriteStepAfter(r, fallback, done) ==
  IF r.rejected THEN CatchAll(r.error)
  ELSE IF ~ResponseOk(r) THEN CatchAll(ErrorOf(ErrorDataMessage(r, fallback)))
  ELSE Resolves(StepSuccess(Text(done)))

\* list-backups, list-jobs
ReadStepAfter(r, failure) ==
  IF r.rejected THEN CatchAll(r.error)
  ELSE IF ~ResponseOk(r) THEN CatchAll(ErrorOf(failure))
  ELSE IF ~r.body.json THEN CatchAll(r.body.error)
  ELSE Resolves(StepSuccess(formatResult(r.body.data)))

\* step.run after its fetch settled with r
StepAfter(req, r) ==
  CASE req.site = "health" -> healthAfter(r)
    [] req.site = "create-backup" ->
         WriteStepAfter(r, "Failed to create backup", "Backup created successfully")
    [] req.site = "list-backups" -> ReadStepAfter(r, "Failed to fetch backups")
    [] req.site = "restore-backup" ->
         WriteStepAfter(r, "Failed to restore backup",
                        "Backup restored to index \"" \o Join(req.closure.name) \o "\"")
    [] req.site = "delete-backup" ->
         WriteStepAfter(r, "Failed to delete backup",
                        "Backup \"" \o Join(req.closure.name) \o "\" deleted successfully")
    [] req.site = "upload-backup" ->
         WriteStepAfter(r, "Failed to upload backup",
                        "Backup \"" \o Join(req.closure.name) \o "\" uploaded successfully")
    [] req.site = "list-jobs" -> ReadStepAfter(r, "Failed to fetch backup jobs")

\* what the backend answers to a step with a 2xx status
OkData(site) ==
  CASE site = "health" -> [status |-> "ok"]
    [] site = "list-backups" -> <<"my_backup">>
    [] site = "list-jobs" -> [jobs |-> << >>]
    [] OTHER -> EmptyObject

TutorialInitial ==
  [selectedIndex |-> "tutorial_index", stepPayloads |-> EmptyObject,
   stepResults |-> EmptyObject, runningSteps |-> {}]

\* the steps the user has touched so far
StepsTried ==
  DOMAIN tutorial.stepPayloads \cup DOMAIN tutorial.stepResults
    \cup tutorial.runningSteps

\* setPayload: typing in the payload editor of a step with requiresPayload
setPayload(stepId, value) ==
  /\ DefaultPayload(stepId) # Null
  /\ Cardinality(StepsTried \cup {stepId}) <= MaxStepsTried
  /\ tutorial' = [tutorial EXCEPT !.stepPayloads = With(@, stepId, value)]
  /\ UNCHANGED <<authVars, clientVars, adapterVars, fetchVars, besidesTutorial>>

\* stepPayloads[step.id] || step.defaultPayload
StepPayload(id) ==
  IF TruthyText(tutorial.stepPayloads, id) THEN tutorial.stepPayloads[id]
  ELSE DefaultPayload(id)

\* runStep once step.run stands at its first await or has returned (the
\* timestamp of a result is not modelled)
runStepTo(id, started) ==
  /\ IF started.done
       THEN /\ tutorial' = [tutorial EXCEPT !.stepResults = With(@, id, started.result)]
            /\ UNCHANGED net
       ELSE /\ tutorial' = [tutorial EXCEPT !.runningSteps = @ \cup {id}]
            /\ net' = Append(net, started.request)
  /\ UNCHANGED <<authVars, clientVars, adapterVars, unhandled, besidesTutorial>>

\* runStep: the Run button is disabled while the step is running
runStep(id) ==
  /\ id \notin tutorial.runningSteps
  /\ ~(RequiresIndex(id) /\ tutorial.selectedIndex = "")
  /\ Cardinality(StepsTried \cup {id}) <= MaxStepsTried
  /\ \E picked \in (IF id = "upload-backup" THEN PickedFiles ELSE {NoFile}) :
       runStepTo(id, StepRun(id, StepPayload(id), tutorial.selectedIndex, token, picked))

\* runStep after `await step.run(...)`: out is how step.run ended
runStepAfter(i, r, out) ==
  /\ net' = RemoveAt(net, i)
  /\ IF out.threw
       THEN /\ unhandled' = unhandled \cup {[site |-> net[i].site, error |-> out.error]}
            /\ UNCHANGED tutorial
       ELSE /\ tutorial' = [tutorial EXCEPT
                              !.stepResults = With(@, net[i].site, out.result),
                              !.runningSteps = @ \ {net[i].site}]
            /\ UNCHANGED unhandled
  /\ UNCHANGED <<authVars, clientVars, adapterVars, besidesTutorial>>

\* the fetch of the running step net[i] settles with r
StepSettlesWith(i, r) ==
  /\ net[i].site \in FetchSteps
  /\ runStepAfter(i, r, StepAfter(net[i], r))

StepSettles ==
  \E i \in 1..Len(net) : \E r \in Responses(OkData(net[i].site)) : StepSettlesWith(i, r)

(***************************************************************************)
(* SearchPage (src/pages/SearchPage.tsx, lines 10-436).  The page state is *)
(* one record with the names of the useState hooks.  handleSearch is the   *)
(* form's submit handler: the part up to the await is one action, the      *)
(* continuation after api.searchVectors settled another.                   *)
(***************************************************************************)
\* the route parameter indexName of the pages under /indexes/:indexName
RouteIndexName == "idx"

\* the engine's message of the SyntaxError that JSON.parse throws
JsonSyntaxMessage == "Unexpected token in JSON"

\* texts the inputs of the search form are given
VectorTexts == {"", "1, 2", "1,,"}
KTexts == {"5", "", "0"}
EfTexts == {"", "10"}
FilterTexts == {"", "{\"a\":1}", "{a"}
SparseIndicesTexts == {"", "1, 2", "1"}
SparseValuesTexts == {"", "0.5, 0.5", "x"}

\* the descriptions getIndexInfo can deliver for the route's index
IndexInfos == {[name |-> "idx", dimension |-> 4, isHybrid |-> h] : h \in BOOLEAN}
NoIndexInfo == [absent |-> TRUE]
\* the results state: null, or the array response.data || []
NoResults == [absent |-> TRUE]
Results(data) == [absent |-> FALSE, items |-> data]

\* the useState initial values of SearchPage; infoEffectDue: the effect on
\* [indexName] that calls loadIndexInfo has not run yet; infoAwaited: the
\* number of loadIndexInfo calls awaiting api.getIndexInfo beside the call
\* in apiInflight
SearchPageInitial ==
  [indexInfo |-> NoIndexInfo, loadingIndex |-> TRUE, vector |-> "",
   sparseIndices |-> "", sparseValues |-> "", k |-> "5", ef |-> "",
   filter |-> "", includeVectors |-> FALSE, searching |-> FALSE,
   error |-> Null, results |-> NoResults, showAdvanced |-> FALSE,
   infoEffectDue |-> TRUE, infoAwaited |-> 0]

\* indexInfo?.isHybrid as a condition
IsHybridOf(p) == p.indexInfo # NoIndexInfo /\ p.indexInfo.isHybrid

\* outcomes of the synchronous part of a submit handler
FormThrows(message) == [ok |-> FALSE, message |-> message]
FormPasses(request) == [ok |-> TRUE, request |-> request]

\* a sparse input: not given when blank, else JSON.parse of `[${text}]`
SparseInput(text) ==
  IF IsBlank(text) THEN [given |-> FALSE] ELSE [given |-> TRUE, parsed |-> ParseBracketed(text)]

\* The sparse block of handleSearch and of parseVector: obj gets the two
\* arrays as its properties fi and fv; si and sv are the two inputs as read.
sparseBlock(obj, fi, fv, si, sv) ==
  IF si.given /\ ~si.parsed.ok THEN FormThrows(JsonSyntaxMessage)
  ELSE IF sv.given /\ ~sv.parsed.ok THEN FormThrows(JsonSyntaxMessage)
  ELSE IF si.given /\ sv.given
    THEN IF Len(si.parsed.val.items) # Len(sv.parsed.val.items)
           THEN FormThrows("Sparse indices and values must have the same length")
           ELSE FormPasses(With(With(obj, fi, si.parsed.val.items),
                                fv, sv.parsed.val.items))
  ELSE IF si.given \/ sv.given
    THEN FormThrows("Both sparse indices and sparse values must be provided together")
  ELSE FormPasses(obj)

\* handleSearch from the sparse block on
searchFromSparse(p, request) ==
  IF IsHybridOf(p)
    THEN sparseBlock(request, "sparse_indices", "sparse_values",
                     SparseInput(p.sparseIndices), SparseInput(p.sparseValues))
    ELSE FormPasses(request)

\* handleSearch from the filter block on
searchFromFilter(p, request) ==
  IF IsBlank(p.filter) THEN searchFromSparse(p, request)
  ELSE IF JsonParse(Chars(p.filter)).ok
    THEN searchFromSparse(p, With(request, "filter", Join(Trim(Chars(p.filter)))))
  ELSE FormThrows("Filter must be valid JSON")

\* a variant that rejects an ef that is no positive number, as k is rejected
searchFromEfChecked(p, request, efValue) ==
  IF ~IsBlank(p.ef) /\ ~NumGT(efValue, 0) THEN FormThrows("ef must be a positive number")
  ELSE searchFromFilter(p, WithIf(~IsBlank(p.ef), request,
                                  "ef", IF IsNaN(efValue) THEN 0 ELSE efValue.n))

\* handleSearch from the ef block on, efValue = parseInt(ef)
searchFromEf(p, request, efValue) ==
  searchFromFilter(p, WithIf(~IsBlank(p.ef) /\ NumGT(efValue, 0), request,
                             "ef", IF IsNaN(efValue) THEN 0 ELSE efValue.n))

\* handleSearch from the k block on, kValue = parseInt(k)
searchFromK(p, vectorArray, kValue) ==
  IF IsNaN(kValue) \/ NumLE(kValue, 0) THEN FormThrows("K must be a positive number")
  ELSE searchFromEf(p, [vector |-> vectorArray, k |-> kValue.n,
                        include_vectors |-> p.includeVectors], ParseInt(p.ef))

\* handleSearch from the vector block on, parsed = JSON.parse(`[${vector}]`)
searchFromVector(p, parsed) ==
  IF ~parsed.ok THEN FormThrows(JsonSyntaxMessage)
  ELSE IF Len(parsed.val.items) = 0
    THEN FormThrows("Vector must be a non-empty array of numbers")
  ELSE searchFromK(p, parsed.val.items, ParseInt(p.k))

\* a variant that validates k before the vector
searchTryKFirst(p) ==
  IF IsNaN(ParseInt(p.k)) \/ NumLE(ParseInt(p.k), 0)
    THEN FormThrows("K must be a positive number")
    ELSE searchFromVector(p, ParseBracketed(p.vector))

\* handleSearch: the try block up to setSearching(true)
searchTry(p) == searchFromVector(p, ParseBracketed(p.vector))

\* the form of SearchPage is rendered and its inputs are enabled
SearchFormEnabled == ~searchPage.loadingIndex /\ ~searchPage.searching

\* an input's onChange handler sets one field of the page state
SetSearchField(field, value) ==
  /\ SearchFormEnabled
  /\ searchPage' = [searchPage EXCEPT ![field] = value]
  /\ UNCHANGED <<authVars, clientVars, adapterVars, besidesSearch>>

setVector(value) == SetSearchField("vector", value)
setK(value) == SetSearchField("k", value)
setFilter(value) == SetSearchField("filter", value)
setIncludeVectors(checked) == SetSearchField("includeVectors", checked)
\* the sparse inputs are rendered for a hybrid index only
setSparseIndices(value) == IsHybridOf(searchPage) /\ SetSearchField("sparseIndices", value)
setSparseValues(value) == IsHybridOf(searchPage) /\ SetSearchField("sparseValues", value)
\* the ef input is rendered while the advanced options are shown
setShowAdvanced == SetSearchField("showAdvanced", ~searchPage.showAdvanced)
setEf(value) == searchPage.showAdvanced /\ SetSearchField("ef", value)

\* the call api.getIndexInfo(indexName) of a page's loadIndexInfo
IndexInfoBegin == ApiBegin("getIndexInfo", [indexName |-> RouteIndexName])

\* what the endee client can do with the getIndexInfo of a page
IndexInfoEnvs ==
  {[index |-> Throws(e), call |-> NotReached] : e \in Thrown}
    \cup {[index |-> Gives([description |-> d]), call |-> NotReached] : d \in IndexInfos}

\* the effect on [indexName]: loadIndexInfo up to its await
SearchLoadIndexInfo ==
  /\ searchPage.infoEffectDue
  /\ IndexInfoBegin
  /\ searchPage' = [searchPage EXCEPT !.infoEffectDue = FALSE, !.loadingIndex = TRUE]
  /\ UNCHANGED besidesSearch

\* setIndexInfo(response.data) when response.success && response.data
LoadedIndexInfo(old, envelope) ==
  IF envelope.success THEN envelope.data ELSE old

\* loadIndexInfo after api.getIndexInfo settled as r
SearchIndexInfoSettled(r) ==
  /\ ApiResolved(r, InvokesCallback(r))
  /\ searchPage' = [searchPage EXCEPT
                      !.indexInfo = LoadedIndexInfo(searchPage.indexInfo, r.envelope),
                      !.loadingIndex = FALSE]
  /\ UNCHANGED besidesSearch

SearchIndexInfoReturns ==
  /\ apiInflight # NoCall /\ apiInflight.op = "getIndexInfo"
  /\ searchPage.loadingIndex
  /\ \E env \in IndexInfoEnvs :
       SearchIndexInfoSettled(ApiSettle(apiInflight.op, apiInflight.args, env))

\* a variant that leaves the results of the search before in place
handleSearchToKeeps(t) ==
  IF t.ok
    THEN /\ ApiBegin("searchVectors", [indexName |-> RouteIndexName, request |-> t.request])
         /\ searchPage' = [searchPage EXCEPT !.error = Null, !.searching = TRUE]
    ELSE /\ searchPage' = [searchPage EXCEPT !.error = t.message, !.searching = FALSE]
         /\ UNCHANGED <<authVars, clientVars, adapterVars>>

\* handleSearch up to the await, its try block having ended as t
handleSearchTo(t) ==
  IF t.ok
    THEN /\ ApiBegin("searchVectors", [indexName |-> RouteIndexName, request |-> t.request])
         /\ searchPage' = [searchPage EXCEPT !.error = Null, !.results = NoResults,
                                              !.searching = TRUE]
    ELSE /\ searchPage' = [searchPage EXCEPT !.error = t.message, !.results = NoResults,
                                              !.searching = FALSE]
         /\ UNCHANGED <<authVars, clientVars, adapterVars>>

\* handleSearch: the submit handler of the search form
handleSearch ==
  /\ SearchFormEnabled
  /\ handleSearchTo(searchTry(searchPage))
  /\ UNCHANGED besidesSearch

\* response.error || fallback
EnvelopeError(envelope, fallback) ==
  IF Truthy(envelope.error) THEN envelope.error ELSE fallback

\* handleSearch after api.searchVectors settled as r
handleSearchSettled(r) ==
  /\ ApiResolved(r, InvokesCallback(r))
  /\ searchPage' = [searchPage EXCEPT
                      !.error = IF r.envelope.success THEN searchPage.error
                                ELSE EnvelopeError(r.envelope, "Search failed"),
                      !.results = IF r.envelope.success THEN Results(r.envelope.data)
                                  ELSE searchPage.results,
                      !.searching = FALSE]
  /\ UNCHANGED besidesSearch

handleSearchReturns ==
  /\ apiInflight # NoCall /\ apiInflight.op = "searchVectors"
  /\ searchPage.searching
  /\ \E env \in EnvOf("searchVectors") :
       handleSearchSettled(ApiSettle(apiInflight.op, apiInflight.args, env))

\* The route parameter indexName changes while the page is mounted (a step in
\* the history between the search pages of two indexes): the effect on
\* [indexName] is due again.  RouteIndexName stands for the current value.
SearchRouteChanges ==
  /\ ~searchPage.infoEffectDue
  /\ searchPage.infoAwaited < MaxLoads
  /\ searchPage' = [searchPage EXCEPT !.infoEffectDue = TRUE]
  /\ UNCHANGED <<authVars, clientVars, adapterVars, besidesSearch>>

\* the effect on [indexName]: loadIndexInfo up to its await, whatever else
\* the page awaits
SearchEffectLoad ==
  /\ searchPage.infoEffectDue
  /\ searchPage.infoAwaited < MaxLoads
  /\ endee' = getEndeeClient
  /\ searchPage' = [searchPage EXCEPT !.infoEffectDue = FALSE, !.loadingIndex = TRUE,
                                      !.infoAwaited = @ + 1]
  /\ UNCHANGED <<authVars, onUnauthorized, adapterVars, besidesSearch>>

\* a variant of the next definition that also clears the results
loadedSearchInfoClears(p, envelope) ==
  [p EXCEPT !.indexInfo = LoadedIndexInfo(p.indexInfo, envelope),
            !.loadingIndex = FALSE, !.results = NoResults,
            !.infoAwaited = @ - 1]

\* the page after a loadIndexInfo call got envelope from api.getIndexInfo
loadedSearchInfo(p, envelope) ==
  [p EXCEPT !.indexInfo = LoadedIndexInfo(p.indexInfo, envelope),
            !.loadingIndex = FALSE,
            !.infoAwaited = @ - 1]

\* loadIndexInfo after api.getIndexInfo settled as r
SearchEffectLoadSettled(r) ==
  /\ searchPage' = loadedSearchInfo(searchPage, r.envelope)
  /\ IF InvokesCallback(r) THEN RunOnUnauthorized ELSE UNCHANGED authVars
  /\ UNCHANGED <<clientVars, adapterVars, besidesSearch>>

SearchEffectLoadReturns ==
  /\ searchPage.infoAwaited > 0
  /\ \E env \in IndexInfoEnvs :
       SearchEffectLoadSettled(ApiSettle("getIndexInfo", [indexName |-> RouteIndexName], env))

(***************************************************************************)
(* CreateIndexPage (src/pages/CreateIndexPage.tsx).  handleSubmit is the   *)
(* form's submit handler, taken from the submit event on.                  *)
(***************************************************************************)
\* the useState initial values of CreateIndexPage; left: navigate('/indexes')
\* was called and the page is gone
CreateIndexPageInitial ==
  [name |-> "", spaceType |-> "cosine", dimension |-> "", precision |-> "float16",
   isHybrid |-> FALSE, sparseDimension |-> "", showAdvanced |-> FALSE,
   mParam |-> "16", efConstruction |-> "128", submitting |-> FALSE,
   error |-> Null, left |-> FALSE]

\* values the inputs of the create form are given: a number input holds the
\* empty text or the text of a number
CreateInputs(field) ==
  CASE field = "name" -> {"", " ", "idx"}
    [] field = "spaceType" -> {"cosine", "l2"}
    [] field = "dimension" -> {"", "4", "768", "0", "3.5"}
    [] field = "precision" -> {"float16", "int8d"}
    [] field = "isHybrid" -> BOOLEAN
    [] field = "sparseDimension" -> {"", "8", "2.5"}
    [] field = "mParam" -> {"16", "3", "16.5"}
    [] field = "efConstruction" -> {"128", "63"}

\* the input of a field is rendered
CreateFieldShown(p, field) ==
  CASE field = "sparseDimension" -> p.isHybrid
    [] field \in {"mParam", "efConstruction"} -> p.showAdvanced
    [] OTHER -> TRUE

\* an input's onChange handler
SetCreateField(field, value) ==
  /\ ~createIndexPage.left /\ ~createIndexPage.submitting
  /\ CreateFieldShown(createIndexPage, field)
  /\ createIndexPage' = [createIndexPage EXCEPT ![field] = value]
  /\ UNCHANGED <<authVars, clientVars, adapterVars, besidesCreate>>

\* the Advanced Configuration button
toggleShowAdvanced ==
  /\ ~createIndexPage.left /\ ~createIndexPage.submitting
  /\ createIndexPage' = [createIndexPage EXCEPT !.showAdvanced = ~createIndexPage.showAdvanced]
  /\ UNCHANGED <<authVars, clientVars, adapterVars, besidesCreate>>

\* arguments that carry the M field whether or not the section is shown
createIndexArgsWithM(p, dimValue, sparseDimValue, mValue, efValue) ==
  [indexName |-> Join(Trim(Chars(p.name))), dimension |-> dimValue.n,
   spaceType |-> p.spaceType,
   options |->
     WithIf(p.showAdvanced,
       WithIf(TRUE,
         WithIf(p.isHybrid, [precision |-> p.precision], "sparse_dim",
                IF IsNaN(sparseDimValue) THEN 0 ELSE sparseDimValue.n),
         "M", IF IsNaN(mValue) THEN 0 ELSE mValue.n),
       "ef_con", IF IsNaN(efValue) THEN 0 ELSE efValue.n)]

\* the arguments handleSubmit passes to api.createIndex
createIndexArgs(p, dimValue, sparseDimValue, mValue, efValue) ==
  [indexName |-> Join(Trim(Chars(p.name))), dimension |-> dimValue.n,
   spaceType |-> p.spaceType,
   options |->
     WithIf(p.showAdvanced,
       WithIf(p.showAdvanced,
         WithIf(p.isHybrid, [precision |-> p.precision], "sparse_dim",
                IF IsNaN(sparseDimValue) THEN 0 ELSE sparseDimValue.n),
         "M", IF IsNaN(mValue) THEN 0 ELSE mValue.n),
       "ef_con", IF IsNaN(efValue) THEN 0 ELSE efValue.n)]

\* handleSubmit up to setSubmitting(true), with the four parseInt results
createValidated(p, dimValue, sparseDimValue, mValue, efValue) ==
  IF IsBlank(p.name) THEN FormThrows("Index name is required")
  ELSE IF p.dimension = "" \/ IsNaN(dimValue) \/ NumLE(dimValue, 0)
    THEN FormThrows("Dimension must be a positive number")
  ELSE IF p.isHybrid /\ (p.sparseDimension = "" \/ IsNaN(sparseDimValue)
                           \/ NumLE(sparseDimValue, 0))
    THEN FormThrows("Sparse dimension must be a positive number for hybrid indexes")
  ELSE IF p.showAdvanced /\ (IsNaN(mValue) \/ NumLT(mValue, 4) \/ NumGT(mValue, 64))
    THEN FormThrows("M parameter must be between 4 and 64")
  ELSE IF p.showAdvanced /\ (IsNaN(efValue) \/ NumLT(efValue, 64) \/ NumGT(efValue, 512))
    THEN FormThrows("ef_construction must be between 64 and 512")
  ELSE FormPasses(createIndexArgs(p, dimValue, sparseDimValue, mValue, efValue))

\* handleSubmit up to the await, the validation having ended as t
handleSubmitCreateTo(t) ==
  IF t.ok
    THEN /\ ApiBegin("createIndex", t.request)
         /\ createIndexPage' = [createIndexPage EXCEPT !.error = Null, !.submitting = TRUE]
    ELSE /\ createIndexPage' = [createIndexPage EXCEPT !.error = t.message]
         /\ UNCHANGED <<authVars, clientVars, adapterVars>>

\* CreateIndexPage.handleSubmit
handleSubmitCreate ==
  /\ ~createIndexPage.left /\ ~createIndexPage.submitting
  /\ handleSubmitCreateTo(
       createValidated(createIndexPage, ParseInt(createIndexPage.dimension),
                       ParseInt(createIndexPage.sparseDimension),
                       ParseInt(createIndexPage.mParam),
                       ParseInt(createIndexPage.efConstruction)))
  /\ UNCHANGED besidesCreate

\* a variant that navigates to the index list whatever the response is
handleSubmitCreateSettledLeaves(r) ==
  /\ ApiResolved(r, InvokesCallback(r))
  /\ createIndexPage' = [createIndexPage EXCEPT
                          !.error = IF r.envelope.success THEN createIndexPage.error
                                    ELSE EnvelopeError(r.envelope, "Failed to create index"),
                          !.left = TRUE,
                          !.submitting = FALSE]
  /\ UNCHANGED besidesCreate

\* handleSubmit after api.createIndex settled as r
handleSubmitCreateSettled(r) ==
  /\ ApiResolved(r, InvokesCallback(r))
  /\ createIndexPage' = [createIndexPage EXCEPT
                          !.error = IF r.envelope.success THEN createIndexPage.error
                                    ELSE EnvelopeError(r.envelope, "Failed to create index"),
                          !.left = r.envelope.success,
                          !.submitting = FALSE]
  /\ UNCHANGED besidesCreate

handleSubmitCreateReturns ==
  /\ apiInflight # NoCall /\ apiInflight.op = "createIndex"
  /\ createIndexPage.submitting
  /\ \E env \in EnvOf("createIndex") :
       handleSubmitCreateSettled(ApiSettle(apiInflight.op, apiInflight.args, env))

(***************************************************************************)
(* VectorInsertPage (src/pages/SearchPage.tsx, lines 438-829).             *)
(***************************************************************************)
\* a row of the insert form with every field empty
BlankRow ==
  [id |-> "", vector |-> "", sparse_indices |-> "", sparse_values |-> "",
   meta |-> "", filter |-> ""]

\* the useState initial values of VectorInsertPage
InsertPageInitial ==
  [indexInfo |-> NoIndexInfo, loadingIndex |-> TRUE, vectors |-> <<BlankRow>>,
   submitting |-> FALSE, error |-> Null, success |-> Null, infoEffectDue |-> TRUE]

\* at most one of the fields after id and vector is filled in, in a row
\* whose id and vector are; a row whose id and vector are empty has at most
\* a metadata text that is no JSON
OneExtra(row) ==
  /\ Cardinality({f \in {"sparse_indices", "meta", "filter"} : row[f] # ""}) <= 1
  /\ (row.sparse_values # "" => row.sparse_indices # "")
  /\ (row.sparse_indices # "" \/ row.meta # "" \/ row.filter # ""
        => \/ row.id # "" /\ row.vector # ""
           \/ row.id = "" /\ row.vector = "" /\ row.meta = "{a")

\* the rows the user types
TypedRows ==
  {row \in [id : {"", "v1"}, vector : {"", "1, 2"}, sparse_indices : {"", "1"},
            sparse_values : {"", "0.5"}, meta : {"", "{a", "{\"a\":1}"},
            filter : {"", "{a"}] : OneExtra(row)}

\* the effect on [indexName]: loadIndexInfo up to its await
InsertLoadIndexInfo ==
  /\ insertPage.infoEffectDue
  /\ IndexInfoBegin
  /\ insertPage' = [insertPage EXCEPT !.infoEffectDue = FALSE, !.loadingIndex = TRUE]
  /\ UNCHANGED besidesInsert

\* loadIndexInfo after api.getIndexInfo settled as r
InsertIndexInfoSettled(r) ==
  /\ ApiResolved(r, InvokesCallback(r))
  /\ insertPage' = [insertPage EXCEPT
                      !.indexInfo = LoadedIndexInfo(insertPage.indexInfo, r.envelope),
                      !.loadingIndex = FALSE]
  /\ UNCHANGED besidesInsert

InsertIndexInfoReturns ==
  /\ apiInflight # NoCall /\ apiInflight.op = "getIndexInfo"
  /\ insertPage.loadingIndex
  /\ \E env \in IndexInfoEnvs :
       InsertIndexInfoSettled(ApiSettle(apiInflight.op, apiInflight.args, env))

\* a change of the rows by a button or an input of the form
SetVectors(rows) ==
  /\ ~insertPage.loadingIndex
  /\ insertPage' = [insertPage EXCEPT !.vectors = rows]
  /\ UNCHANGED <<authVars, clientVars, adapterVars, besidesInsert>>

\* addVector (its button is disabled while submitting)
addVector ==
  /\ ~insertPage.submitting
  /\ Len(insertPage.vectors) < MaxRows
  /\ SetVectors(Append(insertPage.vectors, BlankRow))

\* removeVector (its button is rendered while there is more than one row)
removeVector(index) ==
  /\ Len(insertPage.vectors) > 1
  /\ SetVectors(RemoveAt(insertPage.vectors, index))

\* updateVector (the sparse inputs are rendered for a hybrid index only)
updateVector(index, field, value) ==
  /\ ~insertPage.submitting
  /\ field \in {"sparse_indices", "sparse_values"} => IsHybridOf(insertPage)
  /\ [insertPage.vectors[index] EXCEPT ![field] = value] \in TypedRows
  /\ SetVectors([insertPage.vectors EXCEPT ![index][field] = value])

\* parseVector: meta and filter, after the blocks before them ended as t
parseVectorJson(input, t) ==
  IF ~t.ok THEN t
  ELSE IF ~IsBlank(input.meta) /\ ~JsonParse(Chars(input.meta)).ok
    THEN FormThrows(JsonSyntaxMessage)
  ELSE IF ~IsBlank(input.filter) /\ ~JsonParse(Chars(input.filter)).ok
    THEN FormThrows(JsonSyntaxMessage)
  ELSE FormPasses(
         WithIf(~IsBlank(input.filter),
           WithIf(~IsBlank(input.meta), t.request,
                  "meta", JsonParse(Chars(input.meta)).val),
           "filter", JsonParse(Chars(input.filter)).val))

\* parseVector from the vector on, parsed = JSON.parse(`[${input.vector}]`)
parseVectorFrom(input, isHybrid, parsed) ==
  IF ~parsed.ok THEN FormThrows(JsonSyntaxMessage)
  ELSE IF Len(parsed.val.items) = 0
    THEN FormThrows("Vector must be a non-empty array of numbers")
  ELSE parseVectorJson(input,
         IF isHybrid
           THEN sparseBlock([id |-> Join(Trim(Chars(input.id))), vector |-> parsed.val.items],
                            "sparseIndices", "sparseValues",
                            SparseInput(input.sparse_indices),
                            SparseInput(input.sparse_values))
           ELSE FormPasses([id |-> Join(Trim(Chars(input.id))),
                            vector |-> parsed.val.items]))

\* the catch block of parseVector rethrows with a prefix
InvalidVectorData(t) ==
  IF t.ok THEN t ELSE FormThrows("Invalid vector data: " \o t.message)

\* parseVector
parseVector(input, isHybrid) ==
  InvalidVectorData(IF IsBlank(input.id) THEN FormThrows("Vector ID is required")
                    ELSE parseVectorFrom(input, isHybrid, ParseBracketed(input.vector)))

\* v.id.trim() || v.vector.trim()
NonEmptyVector(v) == ~IsBlank(v.id) \/ ~IsBlank(v.vector)

RECURSIVE parseVectors(_, _, _), parseVectorsAfter(_, _, _, _)
\* the loop of handleSubmit over the rows left, parsedVectors holding the
\* items pushed so far
parseVectors(rows, isHybrid, parsedVectors) ==
  IF rows = << >> THEN FormPasses(parsedVectors)
  ELSE parseVectorsAfter(rows, isHybrid, parsedVectors, parseVector(Head(rows), isHybrid))
\* a variant that puts each parsed item before the ones pushed so far
parseVectorsAfterFront(rows, isHybrid, parsedVectors, parsed) ==
  IF ~parsed.ok THEN parsed
  ELSE parseVectors(Tail(rows), isHybrid, <<parsed.request>> \o parsedVectors)
parseVectorsAfter(rows, isHybrid, parsedVectors, parsed) ==
  IF ~parsed.ok THEN parsed
  ELSE parseVectors(Tail(rows), isHybrid, Append(parsedVectors, parsed.request))

\* handleSubmit after the loop ended as t: if (parsedVectors.length === 0)
insertAfterLoop(t) ==
  IF t.ok /\ t.request = << >>
    THEN FormThrows("At least one valid vector is required")
    ELSE t

\* handleSubmit: the try block up to setSubmitting(true)
insertTry(p) ==
  IF SelectSeq(p.vectors, NonEmptyVector) = << >>
    THEN FormThrows("At least one vector is required")
    ELSE insertAfterLoop(parseVectors(SelectSeq(p.vectors, NonEmptyVector),
                                      IsHybridOf(p), << >>))

\* handleSubmit up to the await, its try block having ended as t
handleSubmitInsertTo(t) ==
  IF t.ok
    THEN /\ ApiBegin("insertVectors", [indexName |-> RouteIndexName, vectors |-> t.request])
         /\ insertPage' = [insertPage EXCEPT !.error = Null, !.success = Null,
                                              !.submitting = TRUE]
    ELSE /\ insertPage' = [insertPage EXCEPT !.error = t.message, !.success = Null,
                                              !.submitting = FALSE]
         /\ UNCHANGED <<authVars, clientVars, adapterVars>>

\* VectorInsertPage.handleSubmit
handleSubmitInsert ==
  /\ ~insertPage.loadingIndex /\ ~insertPage.submitting
  /\ handleSubmitInsertTo(insertTry(insertPage))
  /\ UNCHANGED besidesInsert

\* the decimal text of a natural number
RECURSIVE NumberText(_)
NumberText(n) ==
  IF n < 10 THEN DigitChars[n + 1] ELSE NumberText(n \div 10) \o DigitChars[(n % 10) + 1]

\* handleSubmit after api.insertVectors settled as r, for the n vectors sent
handleSubmitInsertSettled(r, n) ==
  /\ ApiResolved(r, InvokesCallback(r))
  /\ insertPage' =
       IF r.envelope.success
         THEN [insertPage EXCEPT
                 !.success = "Successfully inserted " \o NumberText(n) \o " vector(s)",
                 !.vectors = <<BlankRow>>, !.submitting = FALSE]
         ELSE [insertPage EXCEPT
                 !.error = EnvelopeError(r.envelope, "Failed to insert vectors"),
                 !.submitting = FALSE]
  /\ UNCHANGED besidesInsert

handleSubmitInsertReturns ==
  /\ apiInflight # NoCall /\ apiInflight.op = "insertVectors"
  /\ insertPage.submitting
  /\ \E env \in EnvOf("insertVectors") :
       handleSubmitInsertSettled(ApiSettle(apiInflight.op, apiInflight.args, env),
                                 Len(apiInflight.args.vectors))

(***************************************************************************)
(* NotificationProvider (src/context/NotificationContext.tsx) and          *)
(* BackupsPage (src/pages/BackupsPage.tsx): the list of backups, the jobs  *)
(* and the delete confirmation modal.  The page's fetch calls wait in net. *)
(***************************************************************************)
\* notification = null, timerRef.current = null (0: the ids setTimeout
\* returns are positive) and no timeout of the provider pending in the browser
NoNotification == [type |-> Null, message |-> Null, timerRef |-> 0, timeouts |-> {}]

\* clearTimeout(id): the timeout with that id will not fire
clearTimeout(timeouts, id) == {t \in timeouts : t.id # id}

\* the id setTimeout returns: one that no timeout pending before the call
\* of showNotification has (an id is not used again for the timeout that
\* replaces the one just cancelled)
setTimeoutId(timeouts) ==
  CHOOSE id \in 1..(Cardinality(timeouts) + 1) :
    /\ \A t \in timeouts : t.id # id
    /\ \A other \in 1..(id - 1) : \E t \in timeouts : t.id = other

\* if (timerRef.current) { clearTimeout(timerRef.current); timerRef.current = null }
cancelTimer(n) ==
  IF n.timerRef # 0
    THEN [n EXCEPT !.timeouts = clearTimeout(@, n.timerRef), !.timerRef = 0]
    ELSE n

\* showNotification that leaves the pending timeout alone
showNotificationKeepsTimer(type, message) ==
  LET shown == [notification EXCEPT !.type = type, !.message = message]
      id == setTimeoutId(notification.timeouts)
  IN  IF type \in {"success", "info"}
        THEN [shown EXCEPT !.timerRef = id,
                           !.timeouts = @ \cup {[id |-> id, type |-> type,
                                                 message |-> message]}]
        ELSE shown

\* showNotification: the pending timeout is cancelled, the notification is
\* set, and a timeout is started for a success or info notification; each
\* timeout carries the notification it was started for
showNotification(type, message) ==
  LET shown == [cancelTimer(notification) EXCEPT !.type = type, !.message = message]
      id == setTimeoutId(notification.timeouts)
  IN  IF type \in {"success", "info"}
        THEN [shown EXCEPT !.timerRef = id,
                           !.timeouts = @ \cup {[id |-> id, type |-> type,
                                                 message |-> message]}]
        ELSE shown

\* the notification's onDismiss
clearNotification ==
  /\ notification.type # Null
  /\ notification' = [cancelTimer(notification) EXCEPT !.type = Null, !.message = Null]
  /\ UNCHANGED <<authVars, clientVars, adapterVars, fetchVars, backupsPage,
                 besidesBackups>>

\* the callback of a timeout: setNotification(null); timerRef.current = null
timeoutFires(n, t) ==
  [type |-> Null, message |-> Null, timerRef |-> 0, timeouts |-> n.timeouts \ {t}]

\* a timeout set by showNotification fires
NotificationTimeout ==
  /\ \E t \in notification.timeouts : notification' = timeoutFires(notification, t)
  /\ UNCHANGED <<authVars, clientVars, adapterVars, fetchVars, backupsPage,
                 besidesBackups>>

\* the useState initial values of UploadBackupModal, a child of BackupsPage
\* that is mounted while showUploadModal holds
UploadModalInitial == [selectedFile |-> NoFile, uploading |-> FALSE, uploadError |-> Null]

\* the useState initial values of BackupsPage; mountDue: the mount effect
\* has not run yet; polling: the interval of the polling effect is set;
\* unmounted: the page was left, its state is no longer updated
BackupsPageInitial ==
  [backups |-> << >>, loading |-> TRUE, error |-> Null, activeTab |-> "backups",
   showDeleteModal |-> FALSE, deleteBackupName |-> "", deleting |-> FALSE,
   showRestoreModal |-> FALSE, restoreBackupName |-> "", restoreTargetIndex |-> "",
   restoring |-> FALSE, restoreError |-> Null,
   showUploadModal |-> FALSE, uploadModal |-> UploadModalInitial,
   jobs |-> << >>, polling |-> FALSE, mountDue |-> TRUE, unmounted |-> FALSE]

\* what the backend answers GET /api/v1/backups and GET /api/v1/backups/jobs
\* with: an array of names or something else, and an object with jobs or not
BackupLists == {[isArray |-> TRUE, items |-> <<"b1", "a b">>], [isArray |-> FALSE]}
JobLists ==
  {EmptyObject,
   [jobs |-> << [backup_name |-> "b1", status |-> "completed", started_at |-> 1],
               [backup_name |-> "a b", status |-> "in_progress", started_at |-> 2] >>],
   [jobs |-> << [backup_name |-> "b1", status |-> "completed", started_at |-> 1],
               [backup_name |-> "a b", status |-> "failed", started_at |-> 2] >>]}

\* the fetch of loadBackups and of loadJobs, with the token tok of the render
\* whose closure makes the call
BackupsGet(site, url, tok) ==
  Request(site, "GET", url, WithAuthorization(JsonContentType, tok), NoBody, EmptyObject)
loadBackupsFetch(tok) == BackupsGet("loadBackups", "/api/v1/backups", tok)
loadJobsFetch(tok) == BackupsGet("loadJobs", "/api/v1/backups/jobs", tok)

\* the fetch of handleDeleteBackup
deleteBackupFetch(name, tok) ==
  Request("handleDeleteBackup", "DELETE",
          "/api/v1/backups/" \o encodeURIComponent(Chars(name)),
          WithAuthorization(EmptyObject, tok), NoBody,
          [deleteBackupName |-> name, token |-> tok])

\* allJobs.sort((a, b) => b.started_at - a.started_at)
RECURSIVE SortJobs(_)
SortJobs(js) ==
  IF Len(js) <= 1 THEN js
  ELSE LET m == CHOOSE i \in 1..Len(js) :
                  /\ \A j \in 1..Len(js) : js[j].started_at <= js[i].started_at
                  /\ \A j \in 1..(i - 1) : js[j].started_at < js[i].started_at
       IN <<js[m]>> \o SortJobs(RemoveAt(js, m))

\* the response r has status 401
Is401(r) == ~r.rejected /\ r.status = 401

\* the page after loadBackups got r
loadBackupsAfter(p, r) ==
  IF r.rejected THEN [p EXCEPT !.error = r.error.message, !.loading = FALSE]
  ELSE IF ~ResponseOk(r)
    THEN [p EXCEPT !.error = IF r.status = 401 THEN "Authentication Token Required."
                             ELSE "Failed to fetch backups.",
                   !.loading = FALSE]
  ELSE IF ~r.body.json THEN [p EXCEPT !.error = r.body.error.message, !.loading = FALSE]
  ELSE [p EXCEPT !.backups = IF r.body.data.isArray THEN r.body.data.items ELSE << >>,
                 !.error = Null, !.loading = FALSE]

\* jobs.some(j => j.status === 'in_progress')
hasInProgress(jobs) == \E j \in 1..Len(jobs) : jobs[j].status = "in_progress"

\* a variant of the effect whose interval is never cleared
pollingEffectNoCleanup(p) == [p EXCEPT !.polling = p.polling \/ hasInProgress(p.jobs)]

\* the polling effect, run for the jobs of p: the cleanup of the previous run
\* clears its interval, and a new one is set when a job is in progress
pollingEffect(p) == [p EXCEPT !.polling = hasInProgress(p.jobs)]

\* a variant of loadJobs that empties the list when the refresh fails
loadJobsAfterEmpties(p, r) ==
  IF ~r.rejected /\ ResponseOk(r) /\ r.body.json
    THEN [p EXCEPT !.jobs = IF Has(r.body.data, "jobs") THEN SortJobs(r.body.data.jobs)
                            ELSE << >>]
    ELSE [p EXCEPT !.jobs = << >>]

\* the page after loadJobs got r
loadJobsAfter(p, r) ==
  IF ~r.rejected /\ ResponseOk(r) /\ r.body.json
    THEN [p EXCEPT !.jobs = IF Has(r.body.data, "jobs") THEN SortJobs(r.body.data.jobs)
                            ELSE << >>]
    ELSE p

\* closeDeleteModal: the page it leaves
closedDeleteModal(p) == [p EXCEPT !.showDeleteModal = FALSE, !.deleteBackupName = ""]

\* a variant of the failure path that leaves the modal as it is
deleteFailedModalKept(p) == [p EXCEPT !.deleting = FALSE]

\* handleDeleteBackup, catch and finally: the page it leaves
deleteFailed(p) == [closedDeleteModal(p) EXCEPT !.deleting = FALSE]

\* handleDeleteBackup, success path and finally (with the setLoading(true) of
\* the loadBackups it calls): the page it leaves
deleteSucceeded(p) == [closedDeleteModal(p) EXCEPT !.deleting = FALSE, !.loading = TRUE]

\* the message handleDeleteBackup shows for the failure r
deleteFailureMessage(r) ==
  IF r.rejected THEN r.error.message
  ELSE IF r.status = 401 THEN "Authentication Token Required."
  ELSE ErrorDataMessage(r, "Failed to delete backup")

\* A fetch of the page settles with r: the page becomes p, the notification
\* note, the requests more are issued by the continuation, and a 401 runs
\* handleUnauthorized.  The state updates of a page that was unmounted are
\* dropped.
BackupsSettled(i, r, p, note, more) ==
  /\ net' = RemoveAt(net, i) \o more
  /\ backupsPage' = IF backupsPage.unmounted THEN backupsPage ELSE p
  /\ notification' = note
  /\ IF Is401(r) THEN RunOnUnauthorized ELSE UNCHANGED authVars
  /\ UNCHANGED <<clientVars, adapterVars, unhandled, besidesBackups>>

\* loadBackups after its fetch
loadBackupsSettlesWith(i, r) ==
  /\ net[i].site = "loadBackups"
  /\ BackupsSettled(i, r, loadBackupsAfter(backupsPage, r), notification, << >>)

\* loadJobs after its fetch
loadJobsSettlesWith(i, r) ==
  /\ net[i].site = "loadJobs"
  /\ BackupsSettled(i, r, pollingEffect(loadJobsAfter(backupsPage, r)), notification,
                    << >>)

\* handleDeleteBackup after its fetch
handleDeleteBackupSettlesWith(i, r) ==
  /\ net[i].site = "handleDeleteBackup"
  /\ IF ~r.rejected /\ ResponseOk(r)
       THEN BackupsSettled(i, r, deleteSucceeded(backupsPage),
              showNotification("success",
                "Backup \"" \o net[i].closure.deleteBackupName \o "\" deleted successfully"),
              <<loadBackupsFetch(net[i].closure.token)>>)
       ELSE BackupsSettled(i, r, deleteFailed(backupsPage),
              showNotification("error", deleteFailureMessage(r)), << >>)

\* the responses to the request net[i] of the page
BackupsResponses(i) ==
  CASE net[i].site = "loadBackups" -> UNION {Responses(d) : d \in BackupLists}
    [] net[i].site = "loadJobs" -> UNION {Responses(d) : d \in JobLists}
    [] OTHER -> Responses(EmptyObject)

loadBackupsSettles ==
  \E i \in 1..Len(net) : \E r \in BackupsResponses(i) : loadBackupsSettlesWith(i, r)
loadJobsSettles ==
  \E i \in 1..Len(net) : \E r \in BackupsResponses(i) : loadJobsSettlesWith(i, r)
handleDeleteBackupSettles ==
  \E i \in 1..Len(net) : \E r \in BackupsResponses(i) : handleDeleteBackupSettlesWith(i, r)

\* a handler of the page that issues the requests more and leaves the page p
BackupsStep(p, more) ==
  /\ backupsPage' = p
  /\ net' = net \o more
  /\ UNCHANGED <<authVars, clientVars, adapterVars, unhandled, notification, besidesBackups>>

\* the mount effect: loadBackups() and loadJobs(), the jobs tab when the
\* location hash asks for it
BackupsMount ==
  /\ backupsPage.mountDue
  /\ \E tab \in {"backups", "jobs"} :
       BackupsStep([backupsPage EXCEPT !.mountDue = FALSE, !.activeTab = tab,
                                       !.loading = TRUE],
                   <<loadBackupsFetch(token), loadJobsFetch(token)>>)

\* the interval of the polling effect, set while a job is in progress
PollJobs ==
  /\ ~backupsPage.mountDue
  /\ backupsPage.polling
  /\ Len(net) + 2 <= MaxInflight
  /\ BackupsStep([backupsPage EXCEPT !.loading = TRUE],
                 <<loadJobsFetch(token), loadBackupsFetch(token)>>)

\* the page is left: the cleanup of the polling effect clears the interval;
\* the requests of the page stay awaited
BackupsUnmount ==
  /\ ~backupsPage.mountDue /\ ~backupsPage.unmounted
  /\ BackupsStep([backupsPage EXCEPT !.polling = FALSE, !.unmounted = TRUE], << >>)

\* a modal of the page is shown and its overlay covers the page
BackupsOverlay(p) == p.showDeleteModal \/ p.showRestoreModal \/ p.showUploadModal

\* the tab buttons (behind the overlay while a modal is shown)
setActiveTab(tab) ==
  /\ ~backupsPage.mountDue /\ ~BackupsOverlay(backupsPage)
  /\ BackupsStep([backupsPage EXCEPT !.activeTab = tab], << >>)

\* openDeleteModal, from the Delete button of a row of the table
openDeleteModal(backupName) ==
  /\ backupsPage.activeTab = "backups" /\ ~backupsPage.loading
  /\ ~BackupsOverlay(backupsPage)
  /\ \E b \in 1..Len(backupsPage.backups) : backupsPage.backups[b] = backupName
  /\ BackupsStep([backupsPage EXCEPT !.deleteBackupName = backupName,
                                     !.showDeleteModal = TRUE], << >>)

\* closeDeleteModal, from the Cancel button of the modal
closeDeleteModal ==
  /\ backupsPage.showDeleteModal /\ ~backupsPage.deleting
  /\ BackupsStep(closedDeleteModal(backupsPage), << >>)

\* handleDeleteBackup up to its await, from the Delete button of the modal
handleDeleteBackup ==
  /\ backupsPage.showDeleteModal /\ ~backupsPage.deleting
  /\ Len(net) < MaxInflight
  /\ IF backupsPage.deleteBackupName = ""
       THEN BackupsStep(backupsPage, << >>)
       ELSE BackupsStep([backupsPage EXCEPT !.deleting = TRUE],
                        <<deleteBackupFetch(backupsPage.deleteBackupName, token)>>)

\* openRestoreModal: the page it leaves
openedRestoreModal(p, backupName) ==
  [p EXCEPT !.restoreBackupName = backupName, !.restoreTargetIndex = "",
            !.restoreError = Null, !.showRestoreModal = TRUE]

\* closeRestoreModal: the page it leaves
closedRestoreModal(p) ==
  [p EXCEPT !.showRestoreModal = FALSE, !.restoreBackupName = "",
            !.restoreTargetIndex = "", !.restoreError = Null]

\* openRestoreModal, from the Restore button of a row of the table
openRestoreModal(backupName) ==
  /\ backupsPage.activeTab = "backups" /\ ~backupsPage.loading
  /\ ~BackupsOverlay(backupsPage)
  /\ \E b \in 1..Len(backupsPage.backups) : backupsPage.backups[b] = backupName
  /\ BackupsStep(openedRestoreModal(backupsPage, backupName), << >>)

\* what the user types as the target index name
RestoreTargetTexts == {"", " ", "idx", " new "}

\* the input of the modal (not disabled while restoring)
setRestoreTargetIndex(value) ==
  /\ backupsPage.showRestoreModal
  /\ BackupsStep([backupsPage EXCEPT !.restoreTargetIndex = value], << >>)

\* closeRestoreModal, from the Cancel button of the modal
closeRestoreModal ==
  /\ backupsPage.showRestoreModal /\ ~backupsPage.restoring
  /\ BackupsStep(closedRestoreModal(backupsPage), << >>)

\* a variant that sends the target name as typed
restoreBackupFetchRaw(name, target, tok) ==
  Request("handleRestoreBackup", "POST",
          "/api/v1/backups/" \o encodeURIComponent(Chars(name)) \o "/restore",
          WithAuthorization(JsonContentType, tok),
          [target_index_name |-> target],
          [restoreBackupName |-> name, restoreTargetIndex |-> target, token |-> tok])

\* the fetch of handleRestoreBackup
restoreBackupFetch(name, target, tok) ==
  Request("handleRestoreBackup", "POST",
          "/api/v1/backups/" \o encodeURIComponent(Chars(name)) \o "/restore",
          WithAuthorization(JsonContentType, tok),
          [target_index_name |-> Join(Trim(Chars(target)))],
          [restoreBackupName |-> name, restoreTargetIndex |-> target, token |-> tok])

\* handleRestoreBackup up to its await, from the Restore button of the modal
handleRestoreBackup ==
  /\ backupsPage.showRestoreModal
  /\ ~backupsPage.restoring /\ ~IsBlank(backupsPage.restoreTargetIndex)
  /\ Len(net) < MaxInflight
  /\ IF backupsPage.restoreBackupName = ""
       THEN BackupsStep(backupsPage, << >>)
       ELSE BackupsStep([backupsPage EXCEPT !.restoring = TRUE, !.restoreError = Null],
                        <<restoreBackupFetch(backupsPage.restoreBackupName,
                                             backupsPage.restoreTargetIndex, token)>>)

\* the message handleRestoreBackup shows for the failure r
restoreFailureMessage(r) ==
  IF r.rejected THEN r.error.message
  ELSE IF r.status = 401 THEN "Authentication Token Required."
  ELSE ErrorDataMessage(r, "Failed to restore backup")

\* handleRestoreBackup, success path and finally: the page it leaves
restoreSucceeded(p) == [closedRestoreModal(p) EXCEPT !.restoring = FALSE]

\* handleRestoreBackup, catch and finally: the page it leaves
restoreFailed(p, r) ==
  [p EXCEPT !.restoreError = restoreFailureMessage(r), !.restoring = FALSE]

\* the notification of a restore, from the values of the render that called
restoredMessage(closure) ==
  "Backup \"" \o closure.restoreBackupName \o "\" restored to index \""
    \o Join(Trim(Chars(closure.restoreTargetIndex))) \o "\""

\* handleRestoreBackup after its fetch
handleRestoreBackupSettlesWith(i, r) ==
  /\ net[i].site = "handleRestoreBackup"
  /\ IF ~r.rejected /\ ResponseOk(r)
       THEN BackupsSettled(i, r, restoreSucceeded(backupsPage),
              showNotification("success", restoredMessage(net[i].closure)), << >>)
       ELSE BackupsSettled(i, r, restoreFailed(backupsPage, r), notification, << >>)

handleRestoreBackupSettles ==
  \E i \in 1..Len(net) : \E r \in BackupsResponses(i) : handleRestoreBackupSettlesWith(i, r)

(***************************************************************************)
(* UploadBackupModal (src/components/UploadBackupModal.tsx) and the        *)
(* handlers of BackupsPage that show and close it.                         *)
(***************************************************************************)
\* String.endsWith
EndsWith(cs, pat) ==
  /\ Len(pat) <= Len(cs)
  /\ SubSeq(cs, Len(cs) - Len(pat) + 1, Len(cs)) = pat

\* the files the user can choose in the file dialog
UploadFiles == {"backup.zip", "backup.tar.gz", "old.tar.gz.bak", "B.TAR.GZ"}

\* a variant that looks for the extension anywhere in the name
fileAcceptedAnywhere(name) == Includes(Chars(name), Chars(".tar.gz"))

\* file.name.endsWith('.tar.gz')
fileAccepted(name) == EndsWith(Chars(name), Chars(".tar.gz"))

\* handleFileChange for the first file of the input (NoFile: the dialog was
\* cancelled): the modal state it leaves
fileChanged(m, file) ==
  IF file = NoFile THEN m
  ELSE IF ~fileAccepted(file)
    THEN [m EXCEPT !.uploadError = "Please select a .tar.gz file", !.selectedFile = NoFile]
  ELSE [m EXCEPT !.selectedFile = file, !.uploadError = Null]

\* openUploadModal, from the Upload button of the page header
openUploadModal ==
  /\ ~backupsPage.mountDue /\ ~BackupsOverlay(backupsPage)
  /\ BackupsStep([backupsPage EXCEPT !.showUploadModal = TRUE,
                                     !.uploadModal = UploadModalInitial], << >>)

\* handleFileChange, from the file input of the modal
handleFileChange(file) ==
  /\ backupsPage.showUploadModal /\ ~backupsPage.uploadModal.uploading
  /\ BackupsStep([backupsPage EXCEPT !.uploadModal = fileChanged(@, file)], << >>)

\* closeUploadModal of the page (with the setLoading(true) of the
\* loadBackups it calls); the modal is unmounted and its state is gone
closedUploadModal(p) ==
  [p EXCEPT !.showUploadModal = FALSE, !.uploadModal = UploadModalInitial,
            !.loading = TRUE]

\* closeUploadModal, from the Cancel button of the modal
closeUploadModal ==
  /\ backupsPage.showUploadModal /\ ~backupsPage.uploadModal.uploading
  /\ Len(net) < MaxInflight
  /\ BackupsStep(closedUploadModal(backupsPage), <<loadBackupsFetch(token)>>)

\* the fetch of handleUploadBackup: the FormData carries the file
uploadBackupFetch(file, tok) ==
  Request("handleUploadBackup", "POST", "/api/v1/backups/upload",
          WithAuthorization(EmptyObject, tok), [backup |-> file],
          [selectedFile |-> file, token |-> tok])

\* handleUploadBackup up to its await, from the Upload Backup button
handleUploadBackup ==
  /\ backupsPage.showUploadModal /\ ~backupsPage.uploadModal.uploading
  /\ backupsPage.uploadModal.selectedFile # NoFile
  /\ Len(net) < MaxInflight
  /\ BackupsStep([backupsPage EXCEPT !.uploadModal.uploading = TRUE,
                                     !.uploadModal.uploadError = Null],
                 <<uploadBackupFetch(backupsPage.uploadModal.selectedFile, token)>>)

\* the message handleUploadBackup shows for the failure r
uploadFailureMessage(r) ==
  IF r.rejected THEN r.error.message
  ELSE IF r.status = 401 THEN "Authentication Token Required."
  ELSE ErrorDataMessage(r, "Failed to upload backup")

\* handleUploadBackup, catch and finally: the page it leaves
uploadFailed(p, r) ==
  [p EXCEPT !.uploadModal.uploadError = uploadFailureMessage(r),
            !.uploadModal.uploading = FALSE]

\* handleUploadBackup after its fetch.  On a 2xx response closeUploadModal
\* runs; BackupsPage passes no showSuccess to the modal, so the call of
\* params.showSuccess throws a TypeError that the catch block turns into the
\* uploadError of the modal being unmounted, and no notification is shown.
handleUploadBackupSettlesWith(i, r) ==
  /\ net[i].site = "handleUploadBackup"
  /\ IF ~r.rejected /\ ResponseOk(r)
       THEN BackupsSettled(i, r, closedUploadModal(backupsPage), notification,
                           <<loadBackupsFetch(net[i].closure.token)>>)
       ELSE BackupsSettled(i, r, uploadFailed(backupsPage, r), notification, << >>)

handleUploadBackupSettles ==
  \E i \in 1..Len(net) : \E r \in BackupsResponses(i) : handleUploadBackupSettlesWith(i, r)

(***************************************************************************)
(* IndexDetailPage (src/pages/IndexDetailPage.tsx): the index information, *)
(* the delete confirmation modal and the flag of the backup modal.         *)
(***************************************************************************)
\* the useState values; infoEffectDue: the effect on [indexName] has not yet
\* run; left: the router has navigated away and the page is unmounted
DetailPageInitial ==
  [indexInfo |-> NoIndexInfo, loading |-> TRUE, error |-> Null, deleting |-> FALSE,
   showDeleteConfirm |-> FALSE, showBackupModal |-> FALSE,
   infoEffectDue |-> TRUE, left |-> FALSE]

\* the page's main view is rendered (neither the loading nor the error view)
DetailShown(p) == ~p.left /\ ~p.loading /\ ~Truthy(p.error)

\* a variant that renders the modal's buttons with the main view
DeleteConfirmAlways(p) == DetailShown(p)

\* {showDeleteConfirm && (...)}: the confirmation modal is rendered
DeleteConfirmShown(p) == DetailShown(p) /\ p.showDeleteConfirm

\* disabled={deleting} on both buttons of the modal
DeleteConfirmEnabled(p) == DeleteConfirmShown(p) /\ ~p.deleting

DetailStep(p) ==
  /\ detailPage' = p
  /\ UNCHANGED <<authVars, clientVars, adapterVars, fetchVars, besidesDetail>>

\* the effect on [indexName]: loadIndexInfo up to its await
DetailLoadIndexInfo ==
  /\ ~detailPage.left
  /\ detailPage.infoEffectDue
  /\ IndexInfoBegin
  /\ detailPage' = [detailPage EXCEPT !.infoEffectDue = FALSE, !.loading = TRUE]
  /\ UNCHANGED <<fetchVars, besidesDetail>>

\* loadIndexInfo after api.getIndexInfo returned envelope
loadedDetail(p, envelope) ==
  IF envelope.success
    THEN [p EXCEPT !.indexInfo = envelope.data, !.error = Null, !.loading = FALSE]
    ELSE [p EXCEPT !.error = EnvelopeError(envelope, "Failed to fetch index info"),
                   !.loading = FALSE]

\* a state update of an unmounted component is dropped
DetailSet(p) == IF detailPage.left THEN detailPage ELSE p

DetailIndexInfoSettled(r) ==
  /\ ApiResolved(r, InvokesCallback(r))
  /\ detailPage' = DetailSet(loadedDetail(detailPage, r.envelope))
  /\ UNCHANGED <<fetchVars, besidesDetail>>

DetailIndexInfoReturns ==
  /\ apiInflight # NoCall /\ apiInflight.op = "getIndexInfo"
  /\ \E env \in IndexInfoEnvs :
       DetailIndexInfoSettled(ApiSettle(apiInflight.op, apiInflight.args, env))

\* onClick={() => navigate('/indexes')} of both views
DetailBack ==
  /\ ~detailPage.left /\ ~detailPage.loading
  /\ DetailStep([detailPage EXCEPT !.left = TRUE])

\* the route /indexes/:indexName is opened again: a new instance of the page
DetailVisit ==
  /\ detailPage.left /\ apiInflight = NoCall
  /\ DetailStep(DetailPageInitial)

\* onClick={() => setShowDeleteConfirm(true)} of the Delete Index button
requestDeleteIndex ==
  /\ DetailShown(detailPage)
  /\ DetailStep([detailPage EXCEPT !.showDeleteConfirm = TRUE])

\* onClick={() => setShowDeleteConfirm(false)} of the modal's Cancel button
cancelDeleteIndex ==
  /\ DeleteConfirmEnabled(detailPage)
  /\ DetailStep([detailPage EXCEPT !.showDeleteConfirm = FALSE])

openBackupModal ==
  /\ DetailShown(detailPage)
  /\ DetailStep([detailPage EXCEPT !.showBackupModal = TRUE])

closeBackupModal ==
  /\ DetailShown(detailPage) /\ detailPage.showBackupModal
  /\ DetailStep([detailPage EXCEPT !.showBackupModal = FALSE])

\* handleDeleteIndex up to its await (the modal's Delete button)
handleDeleteIndex ==
  /\ DeleteConfirmEnabled(detailPage)
  /\ ApiBegin("deleteIndex", [indexName |-> RouteIndexName])
  /\ detailPage' = [detailPage EXCEPT !.deleting = TRUE]
  /\ UNCHANGED <<fetchVars, besidesDetail>>

\* handleDeleteIndex after api.deleteIndex returned envelope
deletedIndex(p, envelope) ==
  IF envelope.success
    THEN [p EXCEPT !.left = TRUE]
    ELSE [p EXCEPT !.error = EnvelopeError(envelope, "Failed to delete index"),
                   !.deleting = FALSE, !.showDeleteConfirm = FALSE]

handleDeleteIndexSettled(r) ==
  /\ ApiResolved(r, InvokesCallback(r))
  /\ detailPage' = DetailSet(deletedIndex(detailPage, r.envelope))
  /\ UNCHANGED <<fetchVars, besidesDetail>>

handleDeleteIndexReturns ==
  /\ apiInflight # NoCall /\ apiInflight.op = "deleteIndex"
  /\ \E env \in EnvOf("deleteIndex") :
       handleDeleteIndexSettled(ApiSettle(apiInflight.op, apiInflight.args, env))

(***************************************************************************)
(* VectorGetPage (src/pages/SearchPage.tsx, lines 838-1149): get a vector  *)
(* by id, delete it, and the bulk delete by filter with its two-step       *)
(* confirmation.  The handlers of this page can await the adapter at the   *)
(* same time; their calls wait in getPage.pending.                         *)
(***************************************************************************)
NoVectorInfo == [found |-> FALSE]

GetPageInitial ==
  [indexInfo |-> NoIndexInfo, vectorId |-> "", searching |-> FALSE, deleting |-> FALSE,
   deletingByFilter |-> FALSE, error |-> Null, success |-> Null,
   result |-> NoVectorInfo, showDeleteConfirm |-> FALSE, deleteFilterInput |-> "",
   infoEffectDue |-> TRUE, pending |-> << >>]

VectorIdTexts == {"", "v1"}
DeleteFilterTexts == {"", " ", "{\"a\":1}", "{a", "null"}

\* what deleteWithFilter of the endee client can return or throw
DeleteWithFilterEnvs ==
  EnvOf("deleteVectorsByFilter")
    \cup {[index |-> Gives([description |-> SampleDescription]),
           call |-> Gives([isNumber |-> TRUE, n |-> 0])]}

\* a state change of the page that calls nothing
GetStep(p) ==
  /\ getPage' = p
  /\ UNCHANGED <<authVars, clientVars, adapterVars, besidesGet>>

\* the page, its state being p, calls an adapter method and awaits it
GetBegin(p, op, args) ==
  /\ endee' = getEndeeClient
  /\ getPage' = [p EXCEPT !.pending = Append(@, [op |-> op, args |-> args,
                                                 clientToken |-> getEndeeClient.token])]
  /\ UNCHANGED <<authVars, onUnauthorized, adapterVars, besidesGet>>

\* the awaited call i returned r and its handler left the page as p
GetSettled(i, r, p) ==
  /\ getPage' = [p EXCEPT !.pending = RemoveAt(@, i)]
  /\ IF InvokesCallback(r) THEN RunOnUnauthorized ELSE UNCHANGED authVars
  /\ UNCHANGED <<clientVars, adapterVars, besidesGet>>

PendingOf(op) == {i \in 1..Len(getPage.pending) : getPage.pending[i].op = op}

\* the effect on [indexName]: loadIndexInfo up to its await
GetLoadIndexInfo ==
  /\ getPage.infoEffectDue
  /\ GetBegin([getPage EXCEPT !.infoEffectDue = FALSE], "getIndexInfo",
              [indexName |-> RouteIndexName])

GetIndexInfoSettles ==
  \E i \in PendingOf("getIndexInfo") : \E env \in IndexInfoEnvs :
    GetSettled(i, ApiSettle("getIndexInfo", getPage.pending[i].args, env),
               [getPage EXCEPT !.indexInfo =
                  LoadedIndexInfo(@, ApiSettle("getIndexInfo", getPage.pending[i].args,
                                               env).envelope)])

setVectorId(value) ==
  /\ ~getPage.searching
  /\ GetStep([getPage EXCEPT !.vectorId = value])

\* setError(null); setSuccess(null); setResult(null)
getCleared(p) == [p EXCEPT !.error = Null, !.success = Null, !.result = NoVectorInfo]

\* handleSearch of the page up to its await (the form's submit handler)
handleGetVector ==
  /\ ~getPage.searching
  /\ IF IsBlank(getPage.vectorId)
       THEN GetStep([getCleared(getPage) EXCEPT !.error = "Vector ID is required"])
       ELSE GetBegin([getCleared(getPage) EXCEPT !.searching = TRUE], "getVector",
                     [indexName |-> RouteIndexName,
                      request |-> [id |-> Join(Trim(Chars(getPage.vectorId)))]])

\* handleSearch after api.getVector returned envelope
gotVector(p, envelope) ==
  IF envelope.success
    THEN [p EXCEPT !.result = envelope.data, !.searching = FALSE]
    ELSE [p EXCEPT !.error = EnvelopeError(envelope, "Failed to get vector"),
                   !.searching = FALSE]

handleGetVectorSettles ==
  \E i \in PendingOf("getVector") : \E env \in EnvOf("getVector") :
    GetSettled(i, ApiSettle("getVector", getPage.pending[i].args, env),
               gotVector(getPage, ApiSettle("getVector", getPage.pending[i].args,
                                            env).envelope))

\* handleDeleteById up to its await (the Delete button of the result card)
handleDeleteById ==
  /\ getPage.result # NoVectorInfo
  /\ ~getPage.deleting
  /\ GetBegin([getPage EXCEPT !.deleting = TRUE, !.error = Null], "deleteVectorById",
              [indexName |-> RouteIndexName, vectorId |-> getPage.result.id])

\* handleDeleteById after api.deleteVectorById returned envelope
deletedById(p, id, envelope) ==
  IF envelope.success
    THEN [p EXCEPT !.success = "Vector \"" \o id \o "\" deleted successfully",
                   !.result = NoVectorInfo, !.vectorId = "", !.deleting = FALSE]
    ELSE [p EXCEPT !.error = EnvelopeError(envelope, "Failed to delete vector"),
                   !.deleting = FALSE]

handleDeleteByIdSettles ==
  \E i \in PendingOf("deleteVectorById") : \E env \in EnvOf("deleteVectorById") :
    GetSettled(i, ApiSettle("deleteVectorById", getPage.pending[i].args, env),
               deletedById(getPage, getPage.pending[i].args.vectorId,
                           ApiSettle("deleteVectorById", getPage.pending[i].args,
                                     env).envelope))

setDeleteFilterInput(value) ==
  /\ ~getPage.deletingByFilter
  /\ GetStep([getPage EXCEPT !.deleteFilterInput = value])

\* onClick={() => setShowDeleteConfirm(true)} of Delete Matching Vectors
requestDeleteByFilter ==
  /\ ~getPage.showDeleteConfirm
  /\ ~IsBlank(getPage.deleteFilterInput) /\ ~getPage.deletingByFilter
  /\ GetStep([getPage EXCEPT !.showDeleteConfirm = TRUE])

\* onClick={() => setShowDeleteConfirm(false)} of Cancel
cancelDeleteByFilter ==
  /\ getPage.showDeleteConfirm /\ ~getPage.deletingByFilter
  /\ GetStep([getPage EXCEPT !.showDeleteConfirm = FALSE])

\* a variant that sends the text when it is not JSON
deleteByFilterFromText(p, parsed) ==
  GetBegin([p EXCEPT !.deletingByFilter = TRUE, !.error = Null,
                     !.showDeleteConfirm = FALSE],
           "deleteVectorsByFilter",
           [indexName |-> RouteIndexName,
            filter |-> IF parsed.ok THEN parsed.val ELSE p.deleteFilterInput])

\* handleDeleteByFilter from JSON.parse(deleteFilterInput) on, up to its await
deleteByFilterFrom(p, parsed) ==
  IF parsed.ok
    THEN GetBegin([p EXCEPT !.deletingByFilter = TRUE, !.error = Null,
                            !.showDeleteConfirm = FALSE],
                  "deleteVectorsByFilter",
                  [indexName |-> RouteIndexName, filter |-> parsed.val])
    ELSE GetStep([p EXCEPT !.deletingByFilter = FALSE, !.error = "Invalid JSON filter",
                           !.showDeleteConfirm = FALSE])

\* handleDeleteByFilter (the Yes, Delete button)
handleDeleteByFilter ==
  /\ getPage.showDeleteConfirm /\ ~getPage.deletingByFilter
  /\ IF IsBlank(getPage.deleteFilterInput)
       THEN GetStep(getPage)
       ELSE deleteByFilterFrom(getPage, JsonParse(Chars(getPage.deleteFilterInput)))

\* response.data?.deleted || 0
DeletedCount(data) == IF Has(data, "deleted") THEN data.deleted ELSE 0

\* handleDeleteByFilter after api.deleteVectorsByFilter returned envelope
deletedByFilter(p, envelope) ==
  IF envelope.success
    THEN [p EXCEPT !.success = "Deleted " \o NumberText(DeletedCount(envelope.data))
                                 \o " vector(s) matching the filter",
                   !.result = NoVectorInfo, !.deleteFilterInput = "",
                   !.deletingByFilter = FALSE]
    ELSE [p EXCEPT !.error = EnvelopeError(envelope, "Failed to delete vectors"),
                   !.deletingByFilter = FALSE]

handleDeleteByFilterSettlesWith(i, env) ==
  GetSettled(i, ApiSettle("deleteVectorsByFilter", getPage.pending[i].args, env),
             deletedByFilter(getPage, ApiSettle("deleteVectorsByFilter",
                                                getPage.pending[i].args, env).envelope))

handleDeleteByFilterSettles ==
  \E i \in PendingOf("deleteVectorsByFilter") : \E env \in DeleteWithFilterEnvs :
    handleDeleteByFilterSettlesWith(i, env)

(***************************************************************************)
(* Specifications                                                          *)
(***************************************************************************)
\* a caller of ApiClient.health
HealthCall ==
  /\ \E args \in ArgsOf("health") : ApiBegin("health", args)
  /\ UNCHANGED pageVars

StoredTokens == Tokens \cup {Null}

AuthInit ==
  /\ localToken \in {Null, "", "tokA"}
  /\ token = localToken
  /\ showAuthModal = FALSE
  /\ storageEffectDue = TRUE
  /\ endeeEffectDue = TRUE
  /\ endee = NoEndee
  /\ onUnauthorized = Null
  /\ apiInflight = NoCall
  /\ apiResult = NoResult
  /\ net = << >>
  /\ unhandled = {}
  /\ tutorial = TutorialInitial
  /\ searchPage = SearchPageInitial
  /\ createIndexPage = CreateIndexPageInitial
  /\ insertPage = InsertPageInitial
  /\ backupsPage = BackupsPageInitial
  /\ notification = NoNotification
  /\ getPage = GetPageInitial
  /\ detailPage = DetailPageInitial

Init == AuthInit

\* the adapter's callers start with no token or with a stored one
AdapterInit == AuthInit /\ localToken \in {Null, "tokA"}

vars == <<authVars, clientVars, adapterVars, pageVars>>

\* AuthModal.handleSubmit: a trimmed, non-empty token is saved
AuthModalSubmit == \E t \in {t \in Tokens : t # ""} : setToken(t)

\* The adapter, its callers and the 401 callback.
AdapterNext ==
  \/ AuthModalSubmit
  \/ HeaderRegisterEffect
  \/ HeaderCleanup
  \/ AdapterCall
  \/ AdapterReturn

AdapterSpec == AdapterInit /\ [][AdapterNext]_vars

\* The token lifecycle: every operation of the auth context, the effects
\* that follow a token change, and adapter calls issued in between.
AuthNext ==
  \/ \E t \in StoredTokens : setToken(t)
  \/ clearToken
  \/ openAuthModal
  \/ closeAuthModal
  \/ UnauthorizedSeen
  \/ AuthProviderEffect
  \/ HeaderReinitEffect
  \/ HeaderRegisterEffect
  \/ HeaderCleanup
  \/ HealthCall
  \/ AdapterReturn

AuthSpec == Init /\ [][AuthNext]_vars

\* a page opened by a user with a stored token
PageInit == AuthInit /\ localToken = "tokA"

\* The search page: its mount effect, its inputs and the submit handler.
SearchNext ==
  \/ SearchLoadIndexInfo
  \/ SearchIndexInfoReturns
  \/ \E value \in VectorTexts : setVector(value)
  \/ \E value \in KTexts : setK(value)
  \/ \E value \in FilterTexts : setFilter(value)
  \/ \E checked \in BOOLEAN : setIncludeVectors(checked)
  \/ \E value \in SparseIndicesTexts : setSparseIndices(value)
  \/ \E value \in SparseValuesTexts : setSparseValues(value)
  \/ setShowAdvanced
  \/ \E value \in EfTexts : setEf(value)
  \/ handleSearch
  \/ handleSearchReturns

SearchSpec == PageInit /\ [][SearchNext]_vars

\* texts the k and ef inputs are given when their rule is examined: both are
\* number inputs, which hold the empty text or the text of a number
KRuleTexts == {"", "0", "-1", "1", "5", "100", "1.5"}
EfRuleTexts == {"", "0", "-1", "10"}
\* texts the filter textarea is given when its rule is examined
FilterRuleTexts == {"", " ", "{a", "{\"a\":1}", " {\"a\":1} ", "null", "0", "false"}

\* The search page with the vector and k inputs only.
SearchKNext ==
  \/ SearchLoadIndexInfo
  \/ SearchIndexInfoReturns
  \/ \E value \in VectorTexts : setVector(value)
  \/ \E value \in KRuleTexts : setK(value)
  \/ handleSearch
  \/ handleSearchReturns

SearchKSpec == PageInit /\ [][SearchKNext]_vars

\* The search page with the vector input and the advanced options.
SearchEfNext ==
  \/ SearchLoadIndexInfo
  \/ SearchIndexInfoReturns
  \/ \E value \in VectorTexts : setVector(value)
  \/ setShowAdvanced
  \/ \E value \in EfRuleTexts : setEf(value)
  \/ handleSearch
  \/ handleSearchReturns

SearchEfSpec == PageInit /\ [][SearchEfNext]_vars

\* The search page with the vector and filter inputs only.
SearchFilterNext ==
  \/ SearchLoadIndexInfo
  \/ SearchIndexInfoReturns
  \/ \E value \in VectorTexts : setVector(value)
  \/ \E value \in FilterRuleTexts : setFilter(value)
  \/ handleSearch
  \/ handleSearchReturns

SearchFilterSpec == PageInit /\ [][SearchFilterNext]_vars

\* The search page whose route parameter changes while it is mounted: every
\* run of the effect awaits its own getIndexInfo call, beside a search.
SearchRouteNext ==
  \/ SearchRouteChanges
  \/ SearchEffectLoad
  \/ SearchEffectLoadReturns
  \/ \E value \in VectorTexts : setVector(value)
  \/ handleSearch
  \/ handleSearchReturns

SearchRouteSpec == PageInit /\ [][SearchRouteNext]_vars

\* The create-index page: its inputs and the submit handler.
CreateNext ==
  \/ \E field \in {"name", "spaceType", "dimension", "precision", "isHybrid",
                    "sparseDimension", "mParam", "efConstruction"} :
       \E value \in CreateInputs(field) : SetCreateField(field, value)
  \/ toggleShowAdvanced
  \/ handleSubmitCreate
  \/ handleSubmitCreateReturns

CreateSpec == PageInit /\ [][CreateNext]_vars

\* The vector-insert page: its mount effect, its rows and the submit handler.
InsertNext ==
  \/ InsertLoadIndexInfo
  \/ InsertIndexInfoReturns
  \/ addVector
  \/ \E index \in 1..Len(insertPage.vectors) : removeVector(index)
  \/ \E index \in 1..Len(insertPage.vectors) :
       \E field \in DOMAIN BlankRow :
         \E value \in {row[field] : row \in TypedRows} : updateVector(index, field, value)
  \/ handleSubmitInsert
  \/ handleSubmitInsertReturns

InsertSpec == PageInit /\ [][InsertNext]_vars

\* The backups page: its mount effect, the polling, the delete modal and the
\* notification it shows.
BackupsNext ==
  \/ BackupsMount
  \/ PollJobs
  \/ \E tab \in {"backups", "jobs"} : setActiveTab(tab)
  \/ \E backupName \in {"b1", "a b"} : openDeleteModal(backupName)
  \/ closeDeleteModal
  \/ handleDeleteBackup
  \/ loadBackupsSettles
  \/ loadJobsSettles
  \/ handleDeleteBackupSettles
  \/ clearNotification
  \/ NotificationTimeout
  \/ showAuthModal /\ AuthModalSubmit

BackupsSpec == PageInit /\ [][BackupsNext]_vars

\* The tutorials page, opened with no token or with a stored one.
TutorialNext ==
  \/ \E id \in FetchSteps : \E value \in PayloadTexts : setPayload(id, value)
  \/ \E id \in FetchSteps : runStep(id)
  \/ StepSettles

TutorialSpec == AdapterInit /\ [][TutorialNext]_vars

\* The index detail page: its mount effect, the two modals' flags, the
\* delete of the index and the navigation away from and back to the page.
DetailNext ==
  \/ DetailLoadIndexInfo
  \/ DetailIndexInfoReturns
  \/ DetailBack
  \/ DetailVisit
  \/ requestDeleteIndex
  \/ cancelDeleteIndex
  \/ openBackupModal
  \/ closeBackupModal
  \/ handleDeleteIndex
  \/ handleDeleteIndexReturns
  \/ AuthProviderEffect
  \/ HeaderReinitEffect
  \/ HeaderRegisterEffect
  \/ showAuthModal /\ AuthModalSubmit

DetailSpec == PageInit /\ [][DetailNext]_vars

\* The get/delete-vector page: its mount effect, the get-by-id form, the
\* delete of the shown vector and the bulk delete by filter.
GetNext ==
  \/ HeaderRegisterEffect
  \/ GetLoadIndexInfo
  \/ GetIndexInfoSettles
  \/ \E value \in VectorIdTexts : setVectorId(value)
  \/ handleGetVector
  \/ handleGetVectorSettles
  \/ handleDeleteById
  \/ handleDeleteByIdSettles
  \/ \E value \in DeleteFilterTexts : setDeleteFilterInput(value)
  \/ requestDeleteByFilter
  \/ cancelDeleteByFilter
  \/ handleDeleteByFilter
  \/ handleDeleteByFilterSettles

GetSpec == PageInit /\ [][GetNext]_vars

\* The notification provider under any consumer: a consumer shows a
\* notification of any type, the user dismisses it, a timeout fires; with the
\* backups page's delete flow, whose outcome is shown as a notification.
NotificationTypes == {"success", "info", "error", "warning"}

NoteMessages == {"saved", "failed"}

ConsumerShowsNotification ==
  /\ \E type \in NotificationTypes, message \in NoteMessages :
       notification' = showNotification(type, message)
  /\ UNCHANGED <<authVars, clientVars, adapterVars, fetchVars, backupsPage,
                 besidesBackups>>

NoteNext ==
  \/ ConsumerShowsNotification
  \/ clearNotification
  \/ NotificationTimeout
  \/ BackupsMount
  \/ \E backupName \in {"b1", "a b"} : openDeleteModal(backupName)
  \/ closeDeleteModal
  \/ handleDeleteBackup
  \/ loadBackupsSettles
  \/ loadJobsSettles
  \/ handleDeleteBackupSettles

NoteSpec == PageInit /\ [][NoteNext]_vars

\* The backups page with its restore modal, the jobs being refreshed by the
\* mount effect only.
RestoreNext ==
  \/ BackupsMount
  \/ \E tab \in {"backups", "jobs"} : setActiveTab(tab)
  \/ \E backupName \in {"b1", "a b"} : openRestoreModal(backupName)
  \/ \E value \in RestoreTargetTexts : setRestoreTargetIndex(value)
  \/ closeRestoreModal
  \/ handleRestoreBackup
  \/ loadBackupsSettles
  \/ loadJobsSettles
  \/ handleRestoreBackupSettles
  \/ clearNotification
  \/ NotificationTimeout
  \/ showAuthModal /\ AuthModalSubmit

RestoreSpec == PageInit /\ [][RestoreNext]_vars

\* The backups page, its lists being loaded by the mount effect and refreshed
\* by the polling interval.
PollNext ==
  \/ BackupsMount
  \/ PollJobs
  \/ \E tab \in {"backups", "jobs"} : setActiveTab(tab)
  \/ loadBackupsSettles
  \/ loadJobsSettles
  \/ showAuthModal /\ AuthModalSubmit

PollSpec == PageInit /\ [][PollNext]_vars

\* The backups page from its mount to its unmount, its lists being loaded by
\* the mount effect and refreshed by the polling interval; after a 401 the
\* user enters the stored token again.
PollUnmountNext ==
  \/ BackupsMount
  \/ PollJobs
  \/ loadBackupsSettles
  \/ loadJobsSettles
  \/ BackupsUnmount
  \/ showAuthModal /\ AuthModalSubmit

PollUnmountSpec == PageInit /\ [][PollUnmountNext]_vars

\* The backups page with its upload modal; after a 401 the user enters the
\* stored token again.
UploadNext ==
  \/ BackupsMount
  \/ openUploadModal
  \/ \E file \in UploadFiles \cup {NoFile} : handleFileChange(file)
  \/ closeUploadModal
  \/ handleUploadBackup
  \/ loadBackupsSettles
  \/ loadJobsSettles
  \/ handleUploadBackupSettles
  \/ showAuthModal /\ setToken("tokA")

UploadSpec == PageInit /\ [][UploadNext]_vars

(***************************************************************************)
(* Properties of the adapter and of the token lifecycle                    *)
(***************************************************************************)
\* the envelope of a failure that raised e
FailureEnvelope(e) ==
  [success |-> FALSE, error |-> IF e.isError THEN e.message ELSE "Unknown error"]

\* the envelope the last adapter call must have returned, given what the
\* endee client did (env) and the adapter's own checks; None when the call
\* must have succeeded
ExpectedFailure(call, env) ==
  IF UsesGetIndex(call.op) /\ env.index.throws THEN {FailureEnvelope(env.index.error)}
  ELSE IF call.op = "getVector" /\ ~TruthyText(call.args.request, "id")
    THEN {FailureEnvelope(ErrorOf("Either id or filter must be provided"))}
  ELSE IF env.call.throws THEN {FailureEnvelope(env.call.error)}
  ELSE IF call.op = "getVector" /\ ~env.call.value.found
    THEN {FailureEnvelope(ErrorOf("Vector not found"))}
  ELSE {}

\* C1: every ApiClient operation resolves to an envelope and never rejects;
\* when the endee client call or the adapter's own check raised, the envelope
\* is success=false with the raised Error's message ("Unknown error" for a
\* non-Error value) and no data; success=true only when nothing was raised.
EnvelopeAlways ==
  apiResult # NoResult =>
    LET r == apiResult.settled
        expected == ExpectedFailure(apiResult.call, apiResult.env)
    IN /\ ~r.rejected
       /\ Has(r.envelope, "success")
       /\ expected # {} => r.envelope \in expected
       /\ expected = {} => (r.envelope.success /\ Has(r.envelope, "data")
                             /\ ~Has(r.envelope, "error"))

\* C1 witness: a searchVectors call whose query raised a non-Error value
\* resolved to the "Unknown error" envelope
EnvelopeAlwaysWitness ==
  /\ apiResult # NoResult
  /\ apiResult.call.op = "searchVectors"
  /\ apiResult.env.call.throws
  /\ ~apiResult.env.call.error.isError
  /\ apiResult.settled.envelope = [success |-> FALSE, error |-> "Unknown error"]

\* the messages of ErrMessages whose lower-cased text contains "401" or
\* "invalid token"
UnauthorizedMessages == {"HTTP 401", "Invalid Token"}

\* C2: a failure whose lower-cased message contains "401" or "invalid token",
\* raised while a callback is registered, invokes the callback exactly once,
\* after which the token is null and the auth modal open; any other failure
\* invokes nothing and leaves token and modal unchanged.
UnauthorizedCallback ==
  [][(apiInflight # NoCall /\ apiInflight' = NoCall) =>
       LET r == apiResult'.settled
           indicated == /\ r.raised
                        /\ r.thrown.isError
                        /\ r.thrown.message \in UnauthorizedMessages
                        /\ onUnauthorized # Null
       IN /\ indicated => /\ apiResult'.callbacks = 1
                          /\ token' = Null
                          /\ showAuthModal' = TRUE
          /\ (r.raised /\ ~indicated) => /\ apiResult'.callbacks = 0
                                         /\ token' = token
                                         /\ showAuthModal' = showAuthModal]_vars

\* C2 witness: an "Invalid Token" failure invoked the callback once and left
\* the token null and the modal open
UnauthorizedCallbackWitness ==
  /\ apiResult # NoResult
  /\ apiResult.settled.raised
  /\ apiResult.settled.thrown = ErrorOf("Invalid Token")
  /\ apiResult.callbacks = 1
  /\ token = Null
  /\ showAuthModal

\* the raw fetch net[i] settles with r, at whichever call site issued it
FetchSettlesWith(i, r) ==
  \/ StepSettlesWith(i, r)
  \/ loadBackupsSettlesWith(i, r)
  \/ loadJobsSettlesWith(i, r)
  \/ handleDeleteBackupSettlesWith(i, r)

\* C3: at every raw fetch call site a 401 response makes handleUnauthorized
\* run: after the step in which the call settles the token is null and the
\* auth modal is open.
UnauthorizedAtEverySite ==
  [][\A i \in 1..Len(net) : \A b \in ErrorBodies :
       FetchSettlesWith(i, Response(401, b)) => token' = Null /\ showAuthModal']_vars

\* C4: every raw fetch request issued while the auth token is present
\* carries an Authorization header whose value is that token.
AuthorizationOnEveryFetch ==
  \A i \in 1..Len(net) :
    Truthy(net[i].issuedWith) =>
      /\ Has(net[i].headers, "Authorization")
      /\ net[i].headers.Authorization = net[i].issuedWith

EffectsSettled == ~storageEffectDue /\ ~endeeEffectDue

\* C5: once the effects of the last token change have run, the stored entry
\* equals the token when it is non-empty and is absent otherwise, the endee
\* client is the one built with the current token, and an adapter request
\* issued then goes through a client holding the current token.
TokenPersisted ==
  /\ [](EffectsSettled =>
          /\ localToken = (IF token # Null /\ token # "" THEN token ELSE Null)
          /\ endee # NoEndee
          /\ endee.token = token)
  /\ [][(EffectsSettled /\ apiInflight = NoCall /\ apiInflight' # NoCall)
          => apiInflight'.clientToken = token]_vars

\* C5 witness: after the token was replaced by "tokB" and the effects ran, a
\* request is in flight through a client holding "tokB"
TokenPersistedWitness ==
  /\ EffectsSettled
  /\ token = "tokB"
  /\ localToken = "tokB"
  /\ endee = NewEndee("tokB")
  /\ apiInflight # NoCall
  /\ apiInflight.clientToken = "tokB"

\* C6: no error escapes the handler that issued the call: no rejection is
\* left unhandled, and an operation is shown as running only while its call
\* is in flight, so that after a failure it can be triggered again.
NoErrorEscapes ==
  /\ unhandled = {}
  /\ \A id \in tutorial.runningSteps : \E i \in 1..Len(net) : net[i].site = id

\* the message each validation of the search form fails with (Null: passes)
SearchVectorError(p) ==
  IF ~ParseBracketed(p.vector).ok THEN JsonSyntaxMessage
  ELSE IF ParseBracketed(p.vector).val.items = << >>
    THEN "Vector must be a non-empty array of numbers"
  ELSE Null
SearchKError(p) ==
  IF IsNaN(ParseInt(p.k)) THEN "K must be a positive number"
  ELSE IF ParseInt(p.k).n <= 0 THEN "K must be a positive number"
  ELSE Null
SearchFilterError(p) ==
  IF ~IsBlank(p.filter) /\ ~JsonParse(Chars(p.filter)).ok
    THEN "Filter must be valid JSON" ELSE Null
SearchSparseError(p) ==
  IF ~IsHybridOf(p) THEN Null
  ELSE IF ~IsBlank(p.sparseIndices) /\ ~ParseBracketed(p.sparseIndices).ok
    THEN JsonSyntaxMessage
  ELSE IF ~IsBlank(p.sparseValues) /\ ~ParseBracketed(p.sparseValues).ok
    THEN JsonSyntaxMessage
  ELSE IF IsBlank(p.sparseIndices) # IsBlank(p.sparseValues)
    THEN "Both sparse indices and sparse values must be provided together"
  ELSE IF ~IsBlank(p.sparseIndices)
          /\ Len(ParseBracketed(p.sparseIndices).val.items)
               # Len(ParseBracketed(p.sparseValues).val.items)
    THEN "Sparse indices and values must have the same length"
  ELSE Null
\* the message of the first failing validation in the order dense vector,
\* k, filter, sparse vectors
FirstSearchError(p) ==
  IF SearchVectorError(p) # Null THEN SearchVectorError(p)
  ELSE IF SearchKError(p) # Null THEN SearchKError(p)
  ELSE IF SearchFilterError(p) # Null THEN SearchFilterError(p)
  ELSE SearchSparseError(p)

\* C7: a search submit runs the validations in the order dense vector, k,
\* filter, sparse vectors before any network call: when one fails, the error
\* becomes the message of the first that fails and no search request is
\* issued; when all pass, the submit issues one search request, and no
\* second one replaces it while it is awaited.
SearchValidatedFirst ==
  [][/\ handleSearch =>
          IF FirstSearchError(searchPage) # Null
            THEN /\ searchPage'.error = FirstSearchError(searchPage)
                 /\ apiInflight' = NoCall
                 /\ ~searchPage'.searching
            ELSE /\ apiInflight = NoCall
                 /\ apiInflight' # NoCall
                 /\ apiInflight'.op = "searchVectors"
                 /\ searchPage'.searching
                 /\ searchPage'.error = Null
      /\ (apiInflight # NoCall /\ apiInflight' # NoCall) => apiInflight' = apiInflight]_vars
\* every earlier validation passed, the sparse one failed, nothing was sent
SearchValidatedFirstWitness ==
  /\ searchPage.error = "Sparse indices and values must have the same length"
  /\ FirstSearchError(searchPage) = searchPage.error
  /\ apiInflight = NoCall
  /\ ~searchPage.searching

\* the text is a decimal integer of at least lo
IntegerTextFrom(s, lo) ==
  /\ Chars(s) # << >>
  /\ \A i \in 1..Len(Chars(s)) : IsDigit(Chars(s)[i])
  /\ DecimalValue(Chars(s)) >= lo
\* the text is a decimal integer between lo and hi
IntegerTextIn(s, lo, hi) == IntegerTextFrom(s, lo) /\ DecimalValue(Chars(s)) <= hi
\* the message of the first rule of the create form that p violates (Null: none)
FirstCreateError(p) ==
  IF IsBlank(p.name) THEN "Index name is required"
  ELSE IF ~IntegerTextFrom(p.dimension, 1)
    THEN "Dimension must be a positive number"
  ELSE IF p.isHybrid /\ ~IntegerTextFrom(p.sparseDimension, 1)
    THEN "Sparse dimension must be a positive number for hybrid indexes"
  ELSE IF p.showAdvanced /\ ~IntegerTextIn(p.mParam, 4, 64)
    THEN "M parameter must be between 4 and 64"
  ELSE IF p.showAdvanced /\ ~IntegerTextIn(p.efConstruction, 64, 512)
    THEN "ef_construction must be between 64 and 512"
  ELSE Null

\* C8: a create-index submit calls createIndex only if the name is not
\* blank, the dimension is a positive integer, the sparse dimension is a
\* positive integer when hybrid is checked and, when the advanced
\* configuration is shown, M is an integer in [4, 64] and ef_construction
\* an integer in [64, 512]; otherwise no call is made and the error is the
\* message of the first violated rule; the values are passed as entered.
CreateOnlyWhenValid ==
  [][handleSubmitCreate =>
       IF FirstCreateError(createIndexPage) # Null
         THEN /\ apiInflight' = NoCall
              /\ createIndexPage'.error = FirstCreateError(createIndexPage)
         ELSE /\ apiInflight' # NoCall
              /\ apiInflight'.op = "createIndex"
              /\ apiInflight'.args.dimension = DecimalValue(Chars(createIndexPage.dimension))]_vars

\* the rows of the insert form that are no placeholders and fail to parse
FailingRows(p) ==
  {i \in 1..Len(p.vectors) :
     NonEmptyVector(p.vectors[i]) /\ ~parseVector(p.vectors[i], IsHybridOf(p)).ok}
\* the text names row i, counted from 0 or from 1
NamesRow(text, i) ==
  \/ Includes(Chars(text), Chars(NumberText(i)))
  \/ Includes(Chars(text), Chars(NumberText(i - 1)))

\* C9: when a row of the insert form that is no placeholder fails to parse,
\* the submit issues no insert request and the error shown names the index
\* of a failing row.
InsertAbortNamesRow ==
  [][handleSubmitInsert /\ FailingRows(insertPage) # {} =>
       /\ apiInflight' = NoCall
       /\ insertPage'.error # Null
       /\ \E i \in FailingRows(insertPage) : NamesRow(insertPage'.error, i)]_vars

\* the DELETE requests awaiting their response
DeletesIn(requests) == {i \in 1..Len(requests) : requests[i].method = "DELETE"}
\* the address of the DELETE request for a backup
DeleteAddress(backupName) ==
  CASE backupName = "b1" -> "/api/v1/backups/b1"
    [] backupName = "a b" -> "/api/v1/backups/a%20b"
    [] OTHER -> "/api/v1/backups/"

\* C10: a DELETE request is issued only by the confirm button of the delete
\* modal, opened for a backup: the step issues exactly one, addressed to the
\* name the modal shows; opening and cancelling the modal issue no request;
\* no second DELETE is issued while one is awaited; and when the DELETE
\* settles, successfully or not, the modal is closed.
DeleteOnlyConfirmed ==
  [][/\ (Cardinality(DeletesIn(net')) > Cardinality(DeletesIn(net)) =>
            (/\ handleDeleteBackup
             /\ backupsPage.showDeleteModal
             /\ backupsPage.deleteBackupName # ""
             /\ DeletesIn(net) = {}
             /\ Len(net') = Len(net) + 1
             /\ net'[Len(net')].url = DeleteAddress(backupsPage.deleteBackupName)))
      /\ ((\E backupName \in {"b1", "a b"} : openDeleteModal(backupName)) => net' = net)
      /\ (closeDeleteModal => (net' = net /\ ~backupsPage'.showDeleteModal))
      /\ (Cardinality(DeletesIn(net')) < Cardinality(DeletesIn(net)) =>
            (~backupsPage'.showDeleteModal /\ ~backupsPage'.deleting))]_vars
\* a confirmed delete of the backup "a b" has settled successfully
DeleteOnlyConfirmedWitness ==
  /\ notification.type = "success"
  /\ notification.message = "Backup \"a b\" deleted successfully"
  /\ ~backupsPage.showDeleteModal
  /\ DeletesIn(net) = {}

\* a deleteIndex call of the adapter is awaiting the endee client
DeleteIndexInFlight(call) == call # NoCall /\ call.op = "deleteIndex"

\* C11: on the index detail page a deleteIndex call begins only in the step of
\* the Delete button of the opened confirmation modal (showDeleteConfirm
\* true, deleting false); Cancel closes the modal and begins no call; and
\* while a deleteIndex call is in flight on the mounted page, deleting is
\* true and neither button of the modal acts.
IndexDeleteOnlyConfirmed ==
  [][/\ ((DeleteIndexInFlight(apiInflight') /\ ~DeleteIndexInFlight(apiInflight)) =>
           (/\ handleDeleteIndex
            /\ detailPage.showDeleteConfirm
            /\ ~detailPage.deleting
            /\ apiInflight = NoCall))
     /\ (cancelDeleteIndex =>
           (apiInflight' = apiInflight /\ ~detailPage'.showDeleteConfirm))
     /\ ((DeleteIndexInFlight(apiInflight) /\ ~detailPage.left) =>
           (/\ detailPage.deleting
            /\ ~cancelDeleteIndex
            /\ ~handleDeleteIndex))]_vars

\* the Delete button of the modal was pressed and the call is in flight
IndexDeleteOnlyConfirmedWitness ==
  /\ DeleteIndexInFlight(apiInflight)
  /\ detailPage.showDeleteConfirm
  /\ detailPage.deleting
  /\ ~detailPage.left

\* the delete-by-filter calls a page state is awaiting
FilterDeletes(p) ==
  {i \in 1..Len(p.pending) : p.pending[i].op = "deleteVectorsByFilter"}

\* the texts of DeleteFilterTexts that are JSON, and the blank ones
JsonFilterTexts == {"{\"a\":1}", "null"}
BlankFilterTexts == {"", " "}

\* the message for a count the backend returned
DeletedMessage(n) ==
  CASE n = 0 -> "Deleted 0 vector(s) matching the filter"
    [] n = 2 -> "Deleted 2 vector(s) matching the filter"

\* C12: on the get/delete-vector page a delete-by-filter call is issued only
\* by Yes, Delete after Delete Matching Vectors opened the confirmation, with
\* a non-blank filter text that is JSON; a non-blank text that is not JSON
\* gives the error "Invalid JSON filter" and no call; and when the backend
\* returned a count, the success message reports exactly that count.
DeleteByFilterConfirmed ==
  [][/\ (Cardinality(FilterDeletes(getPage')) > Cardinality(FilterDeletes(getPage)) =>
           (/\ handleDeleteByFilter
            /\ getPage.showDeleteConfirm
            /\ getPage.deleteFilterInput \in JsonFilterTexts
            /\ FilterDeletes(getPage) = {}))
     /\ ((getPage'.showDeleteConfirm /\ ~getPage.showDeleteConfirm) =>
           requestDeleteByFilter)
     /\ ((handleDeleteByFilter
            /\ getPage.deleteFilterInput \notin (JsonFilterTexts \cup BlankFilterTexts)) =>
           (/\ getPage'.error = "Invalid JSON filter"
            /\ getPage'.pending = getPage.pending
            /\ ~getPage'.deletingByFilter))
     /\ \A i \in FilterDeletes(getPage) : \A env \in DeleteWithFilterEnvs :
          (/\ ~env.index.throws /\ ~env.call.throws /\ env.call.value.isNumber
           /\ handleDeleteByFilterSettlesWith(i, env)) =>
             getPage'.success = DeletedMessage(env.call.value.n)]_vars

\* a confirmed delete by filter succeeded and its count is shown
DeleteByFilterConfirmedWitness ==
  /\ getPage.success = "Deleted 2 vector(s) matching the filter"
  /\ getPage.deleteFilterInput = ""
  /\ ~getPage.showDeleteConfirm

\* the restore requests awaiting their response
RestoresIn(requests) ==
  {i \in 1..Len(requests) : requests[i].site = "handleRestoreBackup"}

\* the target name a text of RestoreTargetTexts stands for
TrimmedTarget(text) ==
  CASE text = "idx" -> "idx"
    [] text = " new " -> "new"
    [] OTHER -> ""

\* C13: on the Backups page a restore request is issued only by the Restore
\* button of the restore modal, for the backup openRestoreModal chose and a
\* non-blank target, and its body carries the trimmed target name; when the
\* request succeeds the modal is closed, its fields are reset and a success
\* notification is shown; when it fails the modal stays open with the error
\* and the chosen backup name is unchanged.
RestoreOnlyChosen ==
  [][/\ (Cardinality(RestoresIn(net')) > Cardinality(RestoresIn(net)) =>
           (/\ handleRestoreBackup
            /\ backupsPage.showRestoreModal
            /\ backupsPage.restoreBackupName # ""
            /\ TrimmedTarget(backupsPage.restoreTargetIndex) # ""
            /\ RestoresIn(net) = {}
            /\ Len(net') = Len(net) + 1
            /\ net'[Len(net')].method = "POST"
            /\ net'[Len(net')].url =
                 DeleteAddress(backupsPage.restoreBackupName) \o "/restore"
            /\ net'[Len(net')].body =
                 [target_index_name |-> TrimmedTarget(backupsPage.restoreTargetIndex)]))
     /\ ((backupsPage'.restoreBackupName \notin {"", backupsPage.restoreBackupName}) =>
           openRestoreModal(backupsPage'.restoreBackupName))
     /\ \A i \in RestoresIn(net) : \A r \in BackupsResponses(i) :
          handleRestoreBackupSettlesWith(i, r) =>
            IF ~r.rejected /\ r.status \in 200..299
              THEN /\ ~backupsPage'.showRestoreModal
                   /\ backupsPage'.restoreBackupName = ""
                   /\ backupsPage'.restoreTargetIndex = ""
                   /\ backupsPage'.restoreError = Null
                   /\ ~backupsPage'.restoring
                   /\ notification'.type = "success"
              ELSE /\ backupsPage.showRestoreModal /\ backupsPage'.showRestoreModal
                   /\ backupsPage'.restoreError # Null
                   /\ backupsPage'.restoreBackupName = backupsPage.restoreBackupName
                   /\ backupsPage'.restoreBackupName = net[i].closure.restoreBackupName
                   /\ ~backupsPage'.restoring]_vars

\* a restore to a trimmed target succeeded and the modal is closed
RestoreOnlyChosenWitness ==
  /\ notification.type = "success"
  /\ notification.message = "Backup \"a b\" restored to index \"new\""
  /\ ~backupsPage.showRestoreModal
  /\ RestoresIn(net) = {}

\* C14: on the Backups page the polling interval is set if and only if the
\* current jobs list contains a job in progress, and a periodic refresh fires
\* only from a state whose jobs list contains one: once a loaded list has
\* none, no refresh fires until a list with a job in progress is loaded.
PollingWhileInProgress ==
  [][/\ (backupsPage.polling <=>
           \E j \in 1..Len(backupsPage.jobs) : backupsPage.jobs[j].status = "in_progress")
     /\ (backupsPage'.polling <=>
           \E j \in 1..Len(backupsPage'.jobs) : backupsPage'.jobs[j].status = "in_progress")
     /\ (PollJobs =>
           \E j \in 1..Len(backupsPage.jobs) : backupsPage.jobs[j].status = "in_progress")]_vars

\* a periodic refresh has loaded only finished jobs and the interval is
\* cleared, while the loadBackups of that refresh is still waiting
PollingWhileInProgressWitness ==
  /\ ~backupsPage.polling
  /\ Len(backupsPage.jobs) = 2
  /\ \A j \in 1..2 : backupsPage.jobs[j].status \in {"completed", "failed"}
  /\ backupsPage.backups # << >> /\ backupsPage.loading
  /\ \E i \in 1..Len(net) : net[i].site = "loadBackups"

\* the upload requests awaiting their response
UploadsIn(requests) ==
  {i \in 1..Len(requests) : requests[i].site = "handleUploadBackup"}

\* the files of UploadFiles whose name ends in ".tar.gz"
TarGzFiles == {"backup.tar.gz"}

\* C15: in the upload modal, choosing a file whose name does not end in
\* ".tar.gz" sets an error and clears the selection; the selected file is
\* always absent or named *.tar.gz; and an upload request is issued only by
\* the upload button, for such a file.
UploadOnlyTarGz ==
  [][/\ backupsPage.uploadModal.selectedFile \in TarGzFiles \cup {NoFile}
     /\ backupsPage'.uploadModal.selectedFile \in TarGzFiles \cup {NoFile}
     /\ \A file \in UploadFiles \ TarGzFiles :
          handleFileChange(file) =>
            (/\ backupsPage'.uploadModal.selectedFile = NoFile
             /\ backupsPage'.uploadModal.uploadError = "Please select a .tar.gz file"
             /\ net' = net)
     /\ (Cardinality(UploadsIn(net')) > Cardinality(UploadsIn(net)) =>
           (/\ handleUploadBackup
            /\ Len(net') = Len(net) + 1
            /\ net'[Len(net')].body.backup \in TarGzFiles
            /\ net'[Len(net')].body.backup = backupsPage.uploadModal.selectedFile))]_vars

\* a file not named *.tar.gz was chosen in the open modal: no file is
\* selected and the error is shown
UploadOnlyTarGzWitness ==
  /\ backupsPage.showUploadModal
  /\ backupsPage.uploadModal.selectedFile = NoFile
  /\ backupsPage.uploadModal.uploadError = "Please select a .tar.gz file"

\* the texts of VectorTexts that are non-empty comma-separated numbers, with
\* the number of their tokens
NumericVectorTexts == {"1, 2"}
VectorTokens(text) ==
  CASE text = "1, 2" -> 2
    [] OTHER -> 0
\* the texts of VectorTexts that are empty or no JSON once in brackets
UnparsableVectorTexts == {"", "1,,"}

\* C16: a search submit parses the dense vector text in brackets as JSON: a
\* non-empty comma-separated numeric text gives an array with one item per
\* token (sent as the request's vector when the other fields are valid); an
\* empty text or a text with a JSON syntax error fails the submit with
\* "Vector must be a non-empty array of numbers" and no network call.
DenseVectorParsed ==
  [][handleSearch =>
       /\ searchPage.vector \in NumericVectorTexts =>
            /\ searchPage'.error # "Vector must be a non-empty array of numbers"
            /\ apiInflight' # NoCall =>
                 Len(apiInflight'.args.request.vector) = VectorTokens(searchPage.vector)
       /\ searchPage.vector \in UnparsableVectorTexts =>
            /\ searchPage'.error = "Vector must be a non-empty array of numbers"
            /\ apiInflight' = NoCall
            /\ ~searchPage'.searching]_vars

\* the sparse texts of the model that are blank, and the number of
\* comma-separated elements of the others
BlankSparseTexts == {""}
SparseCount(text) ==
  CASE text = "1, 2" -> 2
    [] text = "0.5, 0.5" -> 2
    [] text = "1" -> 1
    [] text = "x" -> 1
    [] OTHER -> 0

\* C17: a search submit on a hybrid index whose vector, k and filter are
\* valid: with exactly one sparse text blank it fails with "Both sparse
\* indices and sparse values must be provided together"; with both non-blank
\* and different element counts it fails with "Sparse indices and values
\* must have the same length"; in both cases no network call is made; with
\* both blank the request carries no sparse payload.
SparsePairsValidated ==
  [][(/\ handleSearch
      /\ IsHybridOf(searchPage)
      /\ SearchVectorError(searchPage) = Null
      /\ SearchKError(searchPage) = Null
      /\ SearchFilterError(searchPage) = Null) =>
       /\ (searchPage.sparseIndices \in BlankSparseTexts)
            # (searchPage.sparseValues \in BlankSparseTexts) =>
            /\ searchPage'.error
                 = "Both sparse indices and sparse values must be provided together"
            /\ apiInflight' = NoCall
       /\ (/\ searchPage.sparseIndices \notin BlankSparseTexts
           /\ searchPage.sparseValues \notin BlankSparseTexts
           /\ SparseCount(searchPage.sparseIndices)
                # SparseCount(searchPage.sparseValues)) =>
            /\ searchPage'.error = "Sparse indices and values must have the same length"
            /\ apiInflight' = NoCall
       /\ (/\ searchPage.sparseIndices \in BlankSparseTexts
           /\ searchPage.sparseValues \in BlankSparseTexts) =>
            /\ apiInflight' # NoCall
            /\ ~Has(apiInflight'.args.request, "sparse_indices")
            /\ ~Has(apiInflight'.args.request, "sparse_values")]_vars

\* the texts of KRuleTexts that are strictly positive integers, with their
\* values
PositiveIntegerKTexts == {"1", "5", "100"}
KValue(text) ==
  CASE text = "1" -> 1
    [] text = "5" -> 5
    [] text = "100" -> 100
    [] OTHER -> 0

\* C18: a search submit whose other fields are valid proceeds to the network
\* call, with k as entered, when k is the text of a strictly positive
\* integer ("1", "5", "100"); for every other k text ("0", "-1", "", a text
\* that is no integer) it fails with an error before any network call.
KPositiveInteger ==
  [][(handleSearch /\ SearchVectorError(searchPage) = Null) =>
       IF searchPage.k \in PositiveIntegerKTexts
         THEN /\ apiInflight' # NoCall
              /\ apiInflight'.op = "searchVectors"
              /\ apiInflight'.args.request.k = KValue(searchPage.k)
              /\ searchPage'.error = Null
         ELSE /\ apiInflight' = NoCall
              /\ searchPage'.error # Null
              /\ ~searchPage'.searching]_vars

\* the options of the client queries the adapter makes for the adapter call
\* `call`, whatever the client answers
QueriesFor(call) ==
  {ApiSettle(call.op, call.args, env).calls[i].arg :
     <<env, i>> \in {<<e, j>> \in EnvOf(call.op) \X (1..2) :
                      /\ j <= Len(ApiSettle(call.op, call.args, e).calls)
                      /\ ApiSettle(call.op, call.args, e).calls[j].method = "query"}}

\* the texts of EfRuleTexts that are not blank and not positive
NonPositiveEfTexts == {"0", "-1"}

BlankFilterRuleTexts == {"", " "}
NotJsonFilterTexts == {"{a"}
EnteredFilterValue(text) ==
  CASE text \in {"{\"a\":1}", " {\"a\":1} "} ->
         [t |-> "object",
          members |-> <<[key |-> <<"a">>, val |-> [t |-> "number", lit |-> <<"1">>]]>>]
    [] text = "null" -> [t |-> "literal", name |-> <<"n", "u", "l", "l">>]
    [] text = "false" -> [t |-> "literal", name |-> <<"f", "a", "l", "s", "e">>]
    [] text = "0" -> [t |-> "number", lit |-> <<"0">>]

\* C20: a search submit with a valid vector and k: a non-blank filter that
\* is no JSON fails with "Filter must be valid JSON" and no network call; a
\* non-blank JSON filter is sent, and the client query carries as its filter
\* the JSON value of the text entered, whatever value that is; a blank filter
\* puts no filter in the request or the query.
FilterPassedThrough ==
  [][(handleSearch /\ SearchVectorError(searchPage) = Null) =>
       IF searchPage.filter \in NotJsonFilterTexts
         THEN /\ searchPage'.error = "Filter must be valid JSON"
              /\ apiInflight' = NoCall
              /\ ~searchPage'.searching
         ELSE /\ searchPage'.error = Null
              /\ apiInflight' # NoCall
              /\ apiInflight'.op = "searchVectors"
              /\ QueriesFor(apiInflight') # {}
              /\ IF searchPage.filter \in BlankFilterRuleTexts
                   THEN /\ ~Has(apiInflight'.args.request, "filter")
                        /\ \A q \in QueriesFor(apiInflight') : ~Has(q, "filter")
                   ELSE /\ Has(apiInflight'.args.request, "filter")
                        /\ \A q \in QueriesFor(apiInflight') :
                             /\ Has(q, "filter")
                             /\ q.filter = EnteredFilterValue(searchPage.filter)]_vars
\* the search with the filter text "null" is awaited: the query's filter is
\* the JSON value null
FilterPassedThroughWitness ==
  /\ searchPage.filter = "null"
  /\ searchPage.searching
  /\ apiInflight # NoCall
  /\ apiInflight.op = "searchVectors"
  /\ \E q \in QueriesFor(apiInflight) :
       Has(q, "filter") /\ q.filter = EnteredFilterValue("null")

\* the rows of the insert form whose id and vector text are both empty, and
\* the others
PlaceholderRows(p) ==
  {i \in 1..Len(p.vectors) : p.vectors[i].id = "" /\ p.vectors[i].vector = ""}
EnteredRows(p) == (1..Len(p.vectors)) \ PlaceholderRows(p)

\* C21: an insert submit skips the rows whose id and vector text are both
\* blank, whatever their other fields hold: when every other row parses, the
\* insert call is issued with one item per such row and no error; when no
\* row is left after skipping, or none of the rows left parses, the submit
\* fails with "At least one valid vector is required" and no insert call.
InsertSkipsPlaceholders ==
  [][handleSubmitInsert =>
       /\ (EnteredRows(insertPage) # {} /\ FailingRows(insertPage) = {}) =>
            /\ insertPage'.error = Null
            /\ apiInflight' # NoCall
            /\ apiInflight'.op = "insertVectors"
            /\ Len(apiInflight'.args.vectors) = Cardinality(EnteredRows(insertPage))
       /\ EnteredRows(insertPage) \subseteq FailingRows(insertPage) =>
            /\ insertPage'.error = "At least one valid vector is required"
            /\ apiInflight' = NoCall
            /\ ~insertPage'.submitting]_vars

\* the rows of the form that are no placeholders, in form order
EnteredSeq(p) == SelectSeq(p.vectors, LAMBDA row : ~(row.id = "" /\ row.vector = ""))
\* the item sent for a row: its id, its vector, and a property for each of
\* the optional fields the row fills in
ItemOfRow(item, row) ==
  /\ item.id = row.id
  /\ Len(item.vector) = VectorTokens(row.vector)
  /\ Has(item, "meta") = (row.meta # "")
  /\ Has(item, "filter") = (row.filter # "")
  /\ Has(item, "sparseIndices") = (row.sparse_indices # "")
  /\ Has(item, "sparseValues") = (row.sparse_values # "")
\* the payload has one item per entered row, in form order
PayloadOfRows(payload, rows) ==
  /\ Len(payload) = Len(rows)
  /\ \A k \in 1..Len(rows) : ItemOfRow(payload[k], rows[k])
\* the vector lists the adapter hands to index.upsert for the call, whatever
\* the client answers
UpsertsFor(call) ==
  {ApiSettle(call.op, call.args, env).calls[i].arg.vectors :
     <<env, i>> \in {<<e, j>> \in EnvOf(call.op) \X (1..2) :
                      /\ j <= Len(ApiSettle(call.op, call.args, e).calls)
                      /\ ApiSettle(call.op, call.args, e).calls[j].method = "upsert"}}
\* the success message for n vectors
InsertedMessage(n) ==
  CASE n = 1 -> "Successfully inserted 1 vector(s)"
    [] n = 2 -> "Successfully inserted 2 vector(s)"
    [] n = 3 -> "Successfully inserted 3 vector(s)"
    [] OTHER -> "Successfully inserted 4 vector(s)"

\* a step of handleSubmit that changes the page (a submit that shows the same
\* error again changes nothing)
SubmitsInsert ==
  /\ insertPage' # insertPage
  /\ insertPage'.vectors = insertPage.vectors
  /\ ~insertPage.submitting
  /\ handleSubmitInsert

\* C22: an insert submit with a failing row issues no call; when every
\* entered row parses it issues one insertVectors call, none being awaited,
\* whose payload (and the list handed to index.upsert) has every entered row
\* once, in form order; when the call settles, either the form is one blank
\* row and the success message gives the number of items sent, or the rows
\* are as they were and an error is shown; submitting is false again.
InsertOnceInOrder ==
  [][/\ (SubmitsInsert /\ FailingRows(insertPage) # {}) => apiInflight' = NoCall
     /\ (SubmitsInsert /\ EnteredRows(insertPage) # {}
           /\ FailingRows(insertPage) = {}) =>
          /\ apiInflight = NoCall
          /\ apiInflight' # NoCall
          /\ apiInflight'.op = "insertVectors"
          /\ PayloadOfRows(apiInflight'.args.vectors, EnteredSeq(insertPage))
          /\ UpsertsFor(apiInflight') = {apiInflight'.args.vectors}
     /\ (apiInflight # NoCall /\ apiInflight.op = "insertVectors"
           /\ apiInflight' # apiInflight) =>
          /\ apiInflight' = NoCall
          /\ ~insertPage'.submitting
          /\ \/ /\ insertPage'.success = InsertedMessage(Len(apiInflight.args.vectors))
                /\ insertPage'.vectors = <<BlankRow>>
                /\ insertPage'.error = Null
             \/ /\ insertPage'.success = Null
                /\ insertPage'.vectors = insertPage.vectors
                /\ insertPage'.error # Null]_vars
\* two rows were sent and the insert succeeded: one blank row is left
InsertOnceInOrderWitness ==
  /\ insertPage.success = "Successfully inserted 2 vector(s)"
  /\ insertPage.vectors = <<BlankRow>>
  /\ ~insertPage.submitting
  /\ apiInflight = NoCall

\* the client calls the adapter makes for the adapter call `call`, whatever
\* the client answers
ClientCallsFor(call) ==
  {ApiSettle(call.op, call.args, env).calls : env \in EnvOf(call.op)}

\* C23: a create-index submit whose fields pass every rule issues the
\* createIndex call, none being awaited, with submitting true, and the
\* adapter makes one createIndex request for it; a createIndex call is begun
\* by no other step.  When the call settles, submitting is false; if the
\* adapter returned success the page has navigated to the index list and no
\* error is shown, otherwise the error is shown and the page stays.
CreateOnceThenSettles ==
  [][/\ (handleSubmitCreate /\ FirstCreateError(createIndexPage) = Null) =>
          /\ apiInflight = NoCall
          /\ apiInflight' # NoCall
          /\ apiInflight'.op = "createIndex"
          /\ createIndexPage'.submitting
          /\ ~createIndexPage'.left
          /\ \A calls \in ClientCallsFor(apiInflight') :
               Len(calls) = 1 /\ calls[1].method = "createIndex"
     /\ (apiInflight' # NoCall /\ apiInflight' # apiInflight) =>
          /\ handleSubmitCreate
          /\ createIndexPage'.submitting
     /\ (apiInflight # NoCall /\ apiInflight' # apiInflight) =>
          /\ apiInflight' = NoCall
          /\ ~createIndexPage'.submitting
          /\ \A env \in EnvOf("createIndex") :
               handleSubmitCreateSettled(ApiSettle(apiInflight.op, apiInflight.args, env)) =>
                 IF env.call.throws
                   THEN /\ ~createIndexPage'.left
                        /\ createIndexPage'.error # Null
                   ELSE /\ createIndexPage'.left
                        /\ createIndexPage'.error = Null]_vars
\* the index of dimension 768 was created: the page has navigated away
CreateOnceThenSettlesWitness ==
  /\ createIndexPage.dimension = "768"
  /\ createIndexPage.spaceType = "cosine"
  /\ createIndexPage.precision = "float16"
  /\ ~createIndexPage.isHybrid
  /\ ~createIndexPage.showAdvanced
  /\ createIndexPage.left
  /\ ~createIndexPage.submitting
  /\ createIndexPage.error = Null
  /\ apiInflight = NoCall

\* C24: on the search page a submit clears the displayed results; when the
\* awaited search settles they become the data of that response if it
\* succeeded and stay null if it failed; no other step changes them: what is
\* displayed is null or the data of the latest successful response, never a
\* combination with, or a remainder of, an earlier one.
ResultsOfLatestSearch ==
  [][/\ handleSearch => searchPage'.results = NoResults
     /\ searchPage.searching => searchPage.results = NoResults
     /\ (apiInflight # NoCall /\ apiInflight.op = "searchVectors"
           /\ apiInflight' # apiInflight) =>
          \A env \in EnvOf("searchVectors") :
            handleSearchSettled(ApiSettle(apiInflight.op, apiInflight.args, env)) =>
              IF env.index.throws \/ env.call.throws
                THEN searchPage'.results = NoResults /\ searchPage'.error # Null
                ELSE searchPage'.results = Results(env.call.value)
     /\ (~handleSearch /\ ~(apiInflight # NoCall /\ apiInflight.op = "searchVectors"
                              /\ apiInflight' = NoCall)) =>
          searchPage'.results = searchPage.results]_vars
\* the results of a successful search are displayed
ResultsOfLatestSearchWitness ==
  /\ searchPage.results = Results(SampleResults)
  /\ ~searchPage.searching
  /\ searchPage.error = Null
  /\ apiInflight = NoCall

\* a request of the tutorial step id awaits its response
StepInFlight(requests, id) == \E i \in 1..Len(requests) : requests[i].site = id

\* C25: the in-flight flag of an operation, here a tutorial step's
\* membership in runningSteps, becomes true only in the step that starts the
\* operation's network call and is false again once that call has
\* completed, on the success path and on every failure path.
InFlightFlagCycle ==
  [][\A id \in FetchSteps :
       /\ (id \notin tutorial.runningSteps /\ id \in tutorial'.runningSteps) =>
            (~StepInFlight(net, id) /\ StepInFlight(net', id))
       /\ (StepInFlight(net, id) /\ ~StepInFlight(net', id)) =>
            id \notin tutorial'.runningSteps]_vars

\* C26: on the search page the completion of a metadata load, successful or
\* not, changes indexInfo and loadingIndex only (searching, error and
\* results stay as they are), and a search submit and its completion change
\* error, results and searching only (indexInfo and loadingIndex stay as
\* they are), also when a load and a search are awaited at the same time
\* and complete in either order.
LoadAndSearchIndependent ==
  [][/\ searchPage'.infoAwaited < searchPage.infoAwaited =>
          /\ searchPage'.searching = searchPage.searching
          /\ searchPage'.error = searchPage.error
          /\ searchPage'.results = searchPage.results
          /\ ~searchPage'.loadingIndex
          /\ apiInflight' = apiInflight
     /\ (handleSearch \/ (apiInflight # NoCall /\ apiInflight' = NoCall)) =>
          /\ searchPage'.indexInfo = searchPage.indexInfo
          /\ searchPage'.loadingIndex = searchPage.loadingIndex
          /\ searchPage'.infoAwaited = searchPage.infoAwaited
          /\ searchPage'.infoEffectDue = searchPage.infoEffectDue]_vars
\* a search and a metadata load begun after it are awaited at the same time
LoadAndSearchIndependentWitness ==
  /\ searchPage.infoAwaited > 0
  /\ searchPage.loadingIndex
  /\ searchPage.searching
  /\ searchPage.indexInfo # NoIndexInfo
  /\ apiInflight # NoCall
  /\ apiInflight.op = "searchVectors"


\* ---- C27 ----
\* C27: in NotificationProvider a visible success or info notification
\* always has exactly one timeout pending, the one started for it, and a
\* visible error or warning notification has none, so only success and info
\* are cleared by a timer; no timeout is pending when nothing is shown; at
\* most one timeout is pending at any time; and a timeout that fires was
\* started for the notification visible at that moment, never for an earlier
\* one.
TimeoutStartedFor(n) ==
  {t \in n.timeouts : t.type = n.type /\ t.message = n.message /\ t.id = n.timerRef}

OneTimerOfVisible ==
  /\ Cardinality(notification.timeouts) <= 1
  /\ notification.type \in {"success", "info"} =>
       /\ notification.timeouts = TimeoutStartedFor(notification)
       /\ Cardinality(notification.timeouts) = 1
  /\ notification.type \in {"error", "warning", Null} => notification.timeouts = {}

TimerClearsItsOwn ==
  /\ NotificationTimeout =>
       /\ notification.type \in {"success", "info"}
       /\ notification.timeouts \ notification'.timeouts = TimeoutStartedFor(notification)
       /\ notification'.type = Null
  /\ (notification.type \in {"error", "warning"} /\ notification'.type = Null) =>
       /\ clearNotification
       /\ ~NotificationTimeout

TimerNeverClearsLater == []OneTimerOfVisible /\ [][TimerClearsItsOwn]_vars

\* an info notification is visible whose timeout replaced the cancelled
\* timeout of an earlier notification (its id is the second one)
TimerNeverClearsLaterWitness ==
  /\ notification.type = "info"
  /\ notification.timerRef = 2
  /\ notification.timeouts = {[id |-> 2, type |-> "info", message |-> notification.message]}


\* ---- C28 ----
\* the messages of the rules of the create form that do not concern M and
\* ef_construction, and those of the two advanced fields
BasicCreateMessages ==
  {"Index name is required", "Dimension must be a positive number",
   "Sparse dimension must be a positive number for hybrid indexes"}

AdvancedCreateMessages ==
  {"M parameter must be between 4 and 64", "ef_construction must be between 64 and 512"}

\* the options of the createIndex requests made for the adapter call `call`
CreateRequestsFor(call) ==
  UNION {{calls[i].arg : i \in 1..Len(calls)} : calls \in ClientCallsFor(call)}

\* C28: a create-index submit with the advanced configuration hidden ends in
\* a request or in an error of the name, dimension or sparse-dimension rule,
\* never in an error about M or ef_construction, whatever the two fields
\* hold, and its request has no M and no efCon; a submit with hybrid
\* unchecked never ends in the sparse-dimension error and its request has no
\* sparseDimension, whatever the sparse-dimension field holds.  A request
\* has M or efCon only if the advanced configuration was shown and
\* sparseDimension only if hybrid was checked.
HiddenSectionsNotSent ==
  [][handleSubmitCreate =>
       LET p == createIndexPage
           sent == apiInflight' # NoCall
           requests == IF sent THEN CreateRequestsFor(apiInflight') ELSE {}
       IN  /\ ~p.showAdvanced =>
                /\ createIndexPage'.error \notin AdvancedCreateMessages
                /\ sent \/ createIndexPage'.error \in BasicCreateMessages
                /\ \A o \in requests : ~Has(o, "M") /\ ~Has(o, "efCon")
           /\ ~p.isHybrid =>
                /\ createIndexPage'.error #
                     "Sparse dimension must be a positive number for hybrid indexes"
                /\ \A o \in requests : ~Has(o, "sparseDimension")
           /\ \A o \in requests :
                /\ (Has(o, "M") \/ Has(o, "efCon")) => p.showAdvanced
                /\ Has(o, "sparseDimension") => p.isHybrid]_vars

\* a request is awaited that was submitted with the advanced configuration
\* hidden while M and ef_construction held out-of-range values, and with
\* hybrid unchecked while the sparse-dimension field held a number
HiddenSectionsNotSentWitness ==
  /\ apiInflight # NoCall
  /\ apiInflight.op = "createIndex"
  /\ createIndexPage.submitting
  /\ ~createIndexPage.showAdvanced
  /\ createIndexPage.mParam = "3"
  /\ createIndexPage.efConstruction = "63"
  /\ ~createIndexPage.isHybrid
  /\ createIndexPage.sparseDimension = "8"
  /\ \A o \in CreateRequestsFor(apiInflight) :
       ~Has(o, "M") /\ ~Has(o, "efCon") /\ ~Has(o, "sparseDimension")


\* ---- C29 ----
\* the refresh of the jobs list that got r failed: the fetch was rejected,
\* the status is not 2xx, or the body is no JSON
JobsRefreshFailed(r) == r.rejected \/ r.status \notin 200..299 \/ ~r.body.json

\* the jobs of a response that succeeded, in any order
JobsLoadedBy(r) ==
  IF "jobs" \in DOMAIN r.body.data
    THEN {r.body.data.jobs[j] : j \in 1..Len(r.body.data.jobs)}
    ELSE {}

\* the jobs list shown, in any order
JobsShown(p) == {p.jobs[j] : j \in 1..Len(p.jobs)}

InProgressAmong(jobs) == \E job \in jobs : job.status = "in_progress"

\* C29: a refresh of the jobs list that fails leaves the jobs list, the
\* page's error, the notification and the polling interval as they were; the
\* jobs list changes only by a refresh that succeeded, to the list loaded;
\* while the page is mounted the interval is set exactly when the list last
\* loaded has a job in progress; the interval is cleared only by a
\* successful load without a job in progress or by the unmount, and once the
\* page is unmounted no interval is set and no refresh fires.
FailedRefreshKeepsPolling ==
  [][/\ \A i \in 1..Len(net) : \A r \in BackupsResponses(i) :
          loadJobsSettlesWith(i, r) =>
            IF JobsRefreshFailed(r)
              THEN /\ backupsPage'.jobs = backupsPage.jobs
                   /\ backupsPage'.error = backupsPage.error
                   /\ backupsPage'.polling = backupsPage.polling
                   /\ notification' = notification
              ELSE ~backupsPage.unmounted =>
                     /\ JobsShown(backupsPage') = JobsLoadedBy(r)
                     /\ backupsPage'.polling = InProgressAmong(JobsLoadedBy(r))
     /\ backupsPage'.jobs # backupsPage.jobs =>
          \E i \in 1..Len(net) : \E r \in BackupsResponses(i) :
            /\ loadJobsSettlesWith(i, r)
            /\ ~JobsRefreshFailed(r)
     /\ (backupsPage.polling /\ ~backupsPage'.polling) =>
          \/ BackupsUnmount
          \/ \E i \in 1..Len(net) : \E r \in BackupsResponses(i) :
               /\ loadJobsSettlesWith(i, r)
               /\ ~JobsRefreshFailed(r)
               /\ ~InProgressAmong(JobsLoadedBy(r))
     /\ ~backupsPage'.unmounted =>
          (backupsPage'.polling <=> InProgressAmong(JobsShown(backupsPage')))
     /\ backupsPage'.unmounted => ~backupsPage'.polling
     /\ PollJobs => ~backupsPage.unmounted /\ InProgressAmong(JobsShown(backupsPage))]_vars

\* the jobs refresh of the interval got a 401 (the token is gone and the
\* modal asks for one) while its loadBackups, sent with the token, is still
\* awaited: the list with the job in progress is shown, the interval is set
FailedRefreshKeepsPollingWitness ==
  /\ ~backupsPage.unmounted
  /\ backupsPage.polling
  /\ InProgressAmong(JobsShown(backupsPage))
  /\ backupsPage.error = Null
  /\ token = Null /\ showAuthModal
  /\ Len(net) = 1
  /\ net[1].site = "loadBackups"
  /\ "Authorization" \in DOMAIN net[1].headers

\* the page was left while the refresh started by the interval was awaited:
\* the interval is cleared although the list has a job in progress
PollingEndsAtUnmount ==
  /\ backupsPage.unmounted
  /\ ~backupsPage.polling
  /\ InProgressAmong(JobsShown(backupsPage))
  /\ \E i \in 1..Len(net) : net[i].site = "loadJobs"


\* ---- C30 ----
\* the name of the backup in an uploaded file: the file name without ".tar.gz"
UploadedBackupName(file) ==
  CASE file = "backup.tar.gz" -> "backup"
    [] OTHER -> file

\* C30: when the upload request of the Backups page gets a 2xx response the
\* upload modal is closed, a reload of the backup list is requested, the
\* success notification `Backup "<name>" uploaded successfully` is shown and
\* no upload error is recorded; when the request fails the modal stays open
\* with the upload error recorded.
UploadSuccessReported ==
  [][\A i \in 1..Len(net) : \A r \in BackupsResponses(i) :
       handleUploadBackupSettlesWith(i, r) =>
         IF ~r.rejected /\ r.status \in 200..299
           THEN /\ ~backupsPage'.showUploadModal
                /\ Len(net') = Len(net)
                /\ net'[Len(net')].site = "loadBackups"
                /\ backupsPage'.uploadModal.uploadError = Null
                /\ notification'.type = "success"
                /\ notification'.message =
                     "Backup \"" \o UploadedBackupName(net[i].closure.selectedFile)
                       \o "\" uploaded successfully"
           ELSE /\ backupsPage'.showUploadModal
                /\ backupsPage'.uploadModal.uploadError # Null
                /\ notification' = notification]_vars

====
